---- MODULE Spec2Model ----
(***************************************************************************)
(* Emotion companion: text emotion analysis (public/js emotion analyzer),  *)
(* face/text comparison (controllers/emotionController.js), reply          *)
(* selection (controllers/responseController.js) and the chat exchange     *)
(* that runs them (client sendMessage -> POST /api/analyze).               *)
(*                                                                         *)
(* A JavaScript string that the program inspects character by character    *)
(* (the user's text, keywords, phrases) is a sequence of one-character     *)
(* strings; a character outside printable ASCII is written as its UTF-16   *)
(* code units, "U+D83D", "U+DE0A".  Reply templates are never inspected    *)
(* and stay plain strings (non-ASCII code units written "(U+XXXX)").       *)
(* Emotion scores are kept in quarters (1 -> 4, 1.5 -> 6, -0.5 -> -2,      *)
(* -0.75 -> -3) so that the arithmetic stays in the integers.              *)
(***************************************************************************)
EXTENDS Integers, Sequences, FiniteSets, TLC

\* The chat exchange.
VARIABLES pc, userText, textEmotion, faceEmotion, emotionAnalysis, aiResponse

\* The text analyzer called on its own: the text handed to it and what
\* analyze and getSentimentScore returned for it (null before the call).
VARIABLES inputText, reading, sentiment

\* The history analyzer: the history handed to it and what
\* detectEmotionalPattern returned for it (null before the call).
VARIABLES emotionHistory, patternResult

chatVars == <<pc, userText, textEmotion, faceEmotion, emotionAnalysis, aiResponse>>

textVars == <<inputText, reading, sentiment>>

historyVars == <<emotionHistory, patternResult>>

VARIABLES volatilityResult, interventions

insightVars == <<volatilityResult, interventions>>

VARIABLES conversations, emotions, emotion_summary, insertId, requests, sentResponses

storeVars == <<conversations, emotions, emotion_summary, insertId, requests, sentResponses>>

VARIABLES modelsLoaded, startPending, stream, isDetecting, detectionInterval,
          pendingDetections, currentEmotion, cameraHistory, detected

cameraVars == <<modelsLoaded, startPending, stream, isDetecting, detectionInterval,
                pendingDetections, currentEmotion, cameraHistory, detected>>

restVars == <<insightVars, storeVars, cameraVars>>

vars == <<chatVars, textVars, historyVars, restVars>>

\* JavaScript null / undefined (a record, so that it compares with readings).
null == [null |-> TRUE]

(***************************************************************************)
(* Text emotion analyzer: configuration tables                             *)
(***************************************************************************)

happyKeywords ==
    << <<"h", "a", "p", "p", "y">>, <<"j", "o", "y">>, <<"j", "o", "y", "f", "u", "l">>,
       <<"e", "x", "c", "i", "t", "e", "d">>, <<"g", "r", "e", "a", "t">>,
       <<"a", "m", "a", "z", "i", "n", "g">>, <<"w", "o", "n", "d", "e", "r", "f", "u", "l">>,
       <<"f", "a", "n", "t", "a", "s", "t", "i", "c">>,
       <<"e", "x", "c", "e", "l", "l", "e", "n", "t">>, <<"g", "o", "o", "d">>,
       <<"g", "l", "a", "d">>, <<"p", "l", "e", "a", "s", "e", "d">>,
       <<"d", "e", "l", "i", "g", "h", "t", "e", "d">>,
       <<"c", "h", "e", "e", "r", "f", "u", "l">>, <<"t", "h", "r", "i", "l", "l", "e", "d">>,
       <<"l", "o", "v", "e">>, <<"l", "o", "v", "i", "n", "g">>,
       <<"b", "l", "e", "s", "s", "e", "d">>, <<"g", "r", "a", "t", "e", "f", "u", "l">>,
       <<"a", "w", "e", "s", "o", "m", "e">>, <<"b", "r", "i", "l", "l", "i", "a", "n", "t">>,
       <<"p", "e", "r", "f", "e", "c", "t">>, <<"b", "e", "a", "u", "t", "i", "f", "u", "l">>,
       <<"f", "u", "n">>, <<"e", "n", "j", "o", "y">>,
       <<"c", "e", "l", "e", "b", "r", "a", "t", "i", "n", "g">>, <<"l", "a", "u", "g", "h">>,
       <<"s", "m", "i", "l", "e">>, <<"y", "a", "y">>, <<"h", "a", "h", "a">>, <<"l", "o", "l">>,
       <<"U+D83D", "U+DE0A">>, <<"U+D83D", "U+DE04">>, <<"U+D83D", "U+DE01">>,
       <<"U+D83C", "U+DF89">>, <<"U+2764", "U+FE0F">>, <<"U+D83D", "U+DC95">>, <<"U+2728">> >>

happyIntensifiers ==
    << <<"v", "e", "r", "y">>, <<"s", "o">>, <<"r", "e", "a", "l", "l", "y">>,
       <<"e", "x", "t", "r", "e", "m", "e", "l", "y">>, <<"s", "u", "p", "e", "r">>,
       <<"a", "b", "s", "o", "l", "u", "t", "e", "l", "y">> >>

sadKeywords ==
    << <<"s", "a", "d">>, <<"u", "n", "h", "a", "p", "p", "y">>,
       <<"d", "e", "p", "r", "e", "s", "s", "e", "d">>, <<"d", "o", "w", "n">>,
       <<"u", "p", "s", "e", "t">>, <<"h", "u", "r", "t">>, <<"c", "r", "y", "i", "n", "g">>,
       <<"t", "e", "a", "r", "s">>, <<"l", "o", "n", "e", "l", "y">>, <<"a", "l", "o", "n", "e">>,
       <<"m", "i", "s", "e", "r", "a", "b", "l", "e">>,
       <<"d", "e", "v", "a", "s", "t", "a", "t", "e", "d">>,
       <<"h", "e", "a", "r", "t", "b", "r", "o", "k", "e", "n">>, <<"b", "l", "u", "e">>,
       <<"g", "l", "o", "o", "m", "y">>,
       <<"d", "i", "s", "a", "p", "p", "o", "i", "n", "t", "e", "d">>,
       <<"h", "o", "p", "e", "l", "e", "s", "s">>, <<"d", "e", "s", "p", "a", "i", "r">>,
       <<"g", "r", "i", "e", "f">>, <<"s", "o", "r", "r", "o", "w">>,
       <<"m", "e", "l", "a", "n", "c", "h", "o", "l", "y">>, <<"s", "o", "r", "r", "y">>,
       <<"r", "e", "g", "r", "e", "t">>, <<"m", "i", "s", "s">>, <<"l", "o", "s", "t">>,
       <<"b", "r", "o", "k", "e", "n">>, <<"e", "m", "p", "t", "y">>, <<"n", "u", "m", "b">>,
       <<"p", "a", "i", "n">>, <<"a", "c", "h", "e">>, <<"U+D83D", "U+DE22">>,
       <<"U+D83D", "U+DE2D">>, <<"U+D83D", "U+DC94">>, <<"U+D83D", "U+DE1E">> >>

sadIntensifiers ==
    << <<"v", "e", "r", "y">>, <<"s", "o">>, <<"r", "e", "a", "l", "l", "y">>,
       <<"e", "x", "t", "r", "e", "m", "e", "l", "y">>, <<"d", "e", "e", "p", "l", "y">>,
       <<"t", "o", "t", "a", "l", "l", "y">> >>

angryKeywords ==
    << <<"a", "n", "g", "r", "y">>, <<"m", "a", "d">>, <<"f", "u", "r", "i", "o", "u", "s">>,
       <<"r", "a", "g", "e">>, <<"a", "n", "n", "o", "y", "e", "d">>,
       <<"f", "r", "u", "s", "t", "r", "a", "t", "e", "d">>,
       <<"i", "r", "r", "i", "t", "a", "t", "e", "d">>, <<"p", "i", "s", "s", "e", "d">>,
       <<"h", "a", "t", "e">>, <<"h", "a", "t", "r", "e", "d">>,
       <<"d", "i", "s", "g", "u", "s", "t", "e", "d">>,
       <<"o", "u", "t", "r", "a", "g", "e", "d">>, <<"l", "i", "v", "i", "d">>,
       <<"f", "u", "m", "i", "n", "g">>, <<"b", "i", "t", "t", "e", "r">>,
       <<"r", "e", "s", "e", "n", "t", "f", "u", "l">>, <<"h", "o", "s", "t", "i", "l", "e">>,
       <<"v", "i", "o", "l", "e", "n", "t">>,
       <<"a", "g", "g", "r", "e", "s", "s", "i", "v", "e">>, <<"f", "i", "g", "h", "t">>,
       <<"a", "r", "g", "u", "e">>, <<"s", "t", "u", "p", "i", "d">>, <<"i", "d", "i", "o", "t">>,
       <<"d", "a", "m", "n">>, <<"h", "e", "l", "l">>, <<"a", "w", "f", "u", "l">>,
       <<"t", "e", "r", "r", "i", "b", "l", "e">>, <<"w", "o", "r", "s", "t">>,
       <<"U+D83D", "U+DE20">>, <<"U+D83D", "U+DE21">>, <<"U+D83E", "U+DD2C">>,
       <<"U+D83D", "U+DCA2">> >>

angryIntensifiers ==
    << <<"v", "e", "r", "y">>, <<"s", "o">>, <<"r", "e", "a", "l", "l", "y">>,
       <<"e", "x", "t", "r", "e", "m", "e", "l", "y">>,
       <<"a", "b", "s", "o", "l", "u", "t", "e", "l", "y">>,
       <<"t", "o", "t", "a", "l", "l", "y">> >>

anxiousKeywords ==
    << <<"a", "n", "x", "i", "o", "u", "s">>, <<"w", "o", "r", "r", "i", "e", "d">>,
       <<"n", "e", "r", "v", "o", "u", "s">>, <<"s", "c", "a", "r", "e", "d">>,
       <<"a", "f", "r", "a", "i", "d">>, <<"f", "e", "a", "r">>,
       <<"f", "e", "a", "r", "f", "u", "l">>, <<"p", "a", "n", "i", "c">>,
       <<"s", "t", "r", "e", "s", "s">>, <<"s", "t", "r", "e", "s", "s", "e", "d">>,
       <<"o", "v", "e", "r", "w", "h", "e", "l", "m", "e", "d">>, <<"t", "e", "n", "s", "e">>,
       <<"u", "n", "e", "a", "s", "y">>, <<"c", "o", "n", "c", "e", "r", "n", "e", "d">>,
       <<"t", "r", "o", "u", "b", "l", "e", "d">>,
       <<"d", "i", "s", "t", "r", "e", "s", "s", "e", "d">>,
       <<"f", "r", "i", "g", "h", "t", "e", "n", "e", "d">>,
       <<"t", "e", "r", "r", "i", "f", "i", "e", "d">>,
       <<"i", "n", "s", "e", "c", "u", "r", "e">>,
       <<"u", "n", "c", "e", "r", "t", "a", "i", "n">>, <<"d", "o", "u", "b", "t">>,
       <<"w", "o", "r", "r", "y">>, <<"U+D83D", "U+DE30">>, <<"U+D83D", "U+DE28">>,
       <<"U+D83D", "U+DE1F">> >>

anxiousIntensifiers ==
    << <<"v", "e", "r", "y">>, <<"s", "o">>, <<"r", "e", "a", "l", "l", "y">>,
       <<"e", "x", "t", "r", "e", "m", "e", "l", "y">>, <<"t", "o", "t", "a", "l", "l", "y">> >>

neutralKeywords ==
    << <<"o", "k", "a", "y">>, <<"o", "k">>, <<"f", "i", "n", "e">>,
       <<"a", "l", "r", "i", "g", "h", "t">>, <<"n", "o", "r", "m", "a", "l">>,
       <<"r", "e", "g", "u", "l", "a", "r">>, <<"u", "s", "u", "a", "l">>,
       <<"a", "v", "e", "r", "a", "g", "e">>, <<"s", "o", "-", "s", "o">>, <<"m", "e", "h">>,
       <<"w", "h", "a", "t", "e", "v", "e", "r">>, <<"s", "u", "r", "e">>,
       <<"m", "a", "y", "b", "e">> >>

neutralIntensifiers ==
    <<  >>

dismissivePhrases ==
    << <<"i", "'", "m", " ", "f", "i", "n", "e">>,
       <<"i", "t", "'", "s", " ", "f", "i", "n", "e">>, <<"i", "'", "m", " ", "o", "k">>,
       <<"i", "'", "m", " ", "o", "k", "a", "y">>,
       <<"n", "o", "t", "h", "i", "n", "g", "'", "s", " ", "w", "r", "o", "n", "g">>,
       <<"d", "o", "n", "'", "t", " ", "w", "o", "r", "r", "y">>,
       <<"i", "t", "'", "s", " ", "n", "o", "t", "h", "i", "n", "g">>,
       <<"n", "e", "v", "e", "r", " ", "m", "i", "n", "d">>,
       <<"f", "o", "r", "g", "e", "t", " ", "i", "t">>,
       <<"d", "o", "e", "s", "n", "'", "t", " ", "m", "a", "t", "t", "e", "r">> >>

negationWords ==
    << <<"n", "o", "t">>, <<"n", "o">>, <<"n", "e", "v", "e", "r">>,
       <<"n", "e", "i", "t", "h", "e", "r">>, <<"n", "o", "b", "o", "d", "y">>,
       <<"n", "o", "t", "h", "i", "n", "g">>, <<"d", "o", "n", "'", "t">>,
       <<"d", "o", "e", "s", "n", "'", "t">>, <<"d", "i", "d", "n", "'", "t">>,
       <<"c", "a", "n", "'", "t">>, <<"w", "o", "n", "'", "t">> >>

emotionKeywords ==
    [ happy   |-> [keywords |-> happyKeywords,   intensifiers |-> happyIntensifiers],
      sad     |-> [keywords |-> sadKeywords,     intensifiers |-> sadIntensifiers],
      angry   |-> [keywords |-> angryKeywords,   intensifiers |-> angryIntensifiers],
      anxious |-> [keywords |-> anxiousKeywords, intensifiers |-> anxiousIntensifiers],
      neutral |-> [keywords |-> neutralKeywords, intensifiers |-> neutralIntensifiers] ]

\* Object.entries(this.emotionKeywords): insertion order of the keys.
EmotionOrder == <<"happy", "sad", "angry", "anxious", "neutral">>

(***************************************************************************)
(* JavaScript string primitives                                            *)
(***************************************************************************)

UpperCase ==
    << "A", "B", "C", "D", "E", "F", "G", "H", "I", "J", "K", "L", "M",
       "N", "O", "P", "Q", "R", "S", "T", "U", "V", "W", "X", "Y", "Z" >>

LowerCase ==
    << "a", "b", "c", "d", "e", "f", "g", "h", "i", "j", "k", "l", "m",
       "n", "o", "p", "q", "r", "s", "t", "u", "v", "w", "x", "y", "z" >>

Digits == {"0", "1", "2", "3", "4", "5", "6", "7", "8", "9"}

\* \w of a JavaScript regular expression: [A-Za-z0-9_].
isWordChar(c) ==
    \/ \E k \in DOMAIN UpperCase : UpperCase[k] = c
    \/ \E k \in DOMAIN LowerCase : LowerCase[k] = c
    \/ c \in Digits
    \/ c = "_"

\* \s of a JavaScript regular expression, as far as the texts here use it.
isSpace(c) == c \in {" ", "\t", "\n", "\r"}

toLowerCaseChar(c) ==
    IF \E k \in DOMAIN UpperCase : UpperCase[k] = c
    THEN LowerCase[CHOOSE k \in DOMAIN UpperCase : UpperCase[k] = c]
    ELSE c

\* String.prototype.toLowerCase
toLowerCase(s) == [i \in DOMAIN s |-> toLowerCaseChar(s[i])]

\* String.prototype.trim
trim(s) ==
    LET keep == {i \in DOMAIN s : ~isSpace(s[i])}
        first == CHOOSE i \in keep : \A j \in keep : i <= j
        last == CHOOSE i \in keep : \A j \in keep : j <= i
    IN  IF keep = {} THEN <<>> ELSE SubSeq(s, first, last)

RECURSIVE splitFrom(_, _, _, _)
splitFrom(s, i, cur, acc) ==
    IF i > Len(s) THEN Append(acc, cur)
    ELSE IF isSpace(s[i])
         THEN IF i > 1 /\ isSpace(s[i - 1])
              THEN splitFrom(s, i + 1, cur, acc)
              ELSE splitFrom(s, i + 1, <<>>, Append(acc, cur))
         ELSE splitFrom(s, i + 1, Append(cur, s[i]), acc)

\* text.split(/\s+/): the pieces between maximal runs of whitespace.
split(s) == splitFrom(s, 1, <<>>, <<>>)

\* word.replace(/[^\w]/g, '')
stripNonWord(w) == SelectSeq(w, isWordChar)

\* Array.prototype.includes
includes(list, x) == \E k \in DOMAIN list : list[k] = x

\* String.prototype.includes
stringIncludes(text, phrase) ==
    \E i \in 0..(Len(text) - Len(phrase)) : SubSeq(text, i + 1, i + Len(phrase)) = phrase

(***************************************************************************)
(* TextEmotionAnalyzer                                                     *)
(***************************************************************************)

isDismissivePhrase(text) ==
    \E k \in DOMAIN dismissivePhrases : stringIncludes(text, dismissivePhrases[k])

\* The body of the loop over Object.entries(emotionKeywords) for word j
\* (1-based; the source's i is j - 1), run for the emotions from position e on.
\* st = [scores, negationActive].
RECURSIVE scoreEmotions(_, _, _, _, _)
scoreEmotions(st, e, words, j, word) ==
    IF e > Len(EmotionOrder) THEN st
    ELSE LET emotion == EmotionOrder[e]
             data == emotionKeywords[emotion]
             intensified ==
                 /\ j > 1
                 /\ includes(data.intensifiers, toLowerCase(words[j - 1]))
             base == IF intensified THEN 6 ELSE 4
             score == IF st.negationActive THEN 0 - (base \div 2) ELSE base
         IN  IF includes(data.keywords, word)
             THEN scoreEmotions(
                      [scores |-> [st.scores EXCEPT ![emotion] = @ + score],
                       negationActive |-> FALSE],
                      e + 1, words, j, word)
             ELSE scoreEmotions(st, e + 1, words, j, word)

\* The loop over the words, from word j on.
RECURSIVE scanWords(_, _, _)
scanWords(st, words, j) ==
    IF j > Len(words) THEN st
    ELSE LET word == stripNonWord(toLowerCase(words[j]))
         IN  IF includes(negationWords, word)
             THEN scanWords([st EXCEPT !.negationActive = TRUE], words, j + 1)
             ELSE LET scored == scoreEmotions(st, 1, words, j, word)
                      \* i > 0 && negationWords.includes(words[i - 2]); words[-1]
                      \* is undefined, which the list does not include.
                      expired == j > 2 /\ includes(negationWords, words[j - 2])
                  IN  scanWords(
                          IF expired THEN [scored EXCEPT !.negationActive = FALSE]
                          ELSE scored,
                          words, j + 1)

maxOf(S) == CHOOSE x \in S : \A y \in S : y <= x

minOf(S) == CHOOSE x \in S : \A y \in S : x <= y

calculateEmotionScores(text) ==
    LET words == split(text)
        zero == [e \in {EmotionOrder[k] : k \in DOMAIN EmotionOrder} |-> 0]
        scores == scanWords([scores |-> zero, negationActive |-> FALSE], words, 1).scores
        maxScore == maxOf({scores[e] : e \in DOMAIN scores})
    IN  IF maxScore > 0
        THEN [e \in DOMAIN scores |-> maxOf({0, scores[e]})]
        ELSE scores

\* The loop of getDominantEmotion with score >= maxScore for its test.
RECURSIVE dominantFrom_lastMax(_, _, _)
dominantFrom_lastMax(scores, e, best) ==
    IF e > Len(EmotionOrder) THEN best
    ELSE LET emotion == EmotionOrder[e]
         IN  IF scores[emotion] >= best.score
             THEN dominantFrom_lastMax(scores, e + 1,
                                       [emotion |-> emotion, score |-> scores[emotion]])
             ELSE dominantFrom_lastMax(scores, e + 1, best)

\* The loop of getDominantEmotion from position e on; best = [emotion, score].
RECURSIVE dominantFrom(_, _, _)
dominantFrom(scores, e, best) ==
    IF e > Len(EmotionOrder) THEN best
    ELSE LET emotion == EmotionOrder[e]
         IN  IF scores[emotion] > best.score
             THEN dominantFrom(scores, e + 1, [emotion |-> emotion, score |-> scores[emotion]])
             ELSE dominantFrom(scores, e + 1, best)

RECURSIVE sumFrom(_, _)
sumFrom(scores, e) ==
    IF e > Len(EmotionOrder) THEN 0
    ELSE scores[EmotionOrder[e]] + sumFrom(scores, e + 1)

\* Math.floor in the place of Math.round.
roundPercent_floor(num, den) == (100 * num) \div den

\* Math.round(x * 100) for the quotient x = num / den, den > 0, num >= 0:
\* the nearest integer, a half rounded up.
roundPercent(num, den) == (200 * num + den) \div (2 * den)

\* getDominantEmotion with maxEmotion initialised to the first label.
getDominantEmotion_firstLabel(scores) ==
    LET best == dominantFrom(scores, 1, [emotion |-> EmotionOrder[1], score |-> 0])
        totalScore == sumFrom(scores, 1)
        confidence == IF totalScore > 0 THEN roundPercent(best.score, totalScore) ELSE 0
    IN  [emotion |-> best.emotion, confidence |-> minOf({confidence, 100})]

getDominantEmotion(scores) ==
    LET best == dominantFrom(scores, 1, [emotion |-> "neutral", score |-> 0])
        totalScore == sumFrom(scores, 1)
        confidence == IF totalScore > 0 THEN roundPercent(best.score, totalScore) ELSE 0
    IN  [emotion |-> best.emotion, confidence |-> minOf({confidence, 100})]

\* analyze without the toLowerCase() of line 87.
analyze_caseSensitive(text) ==
    IF Len(text) = 0 \/ Len(trim(text)) = 0
    THEN [emotion |-> "neutral", confidence |-> 0, isDismissive |-> FALSE]
    ELSE LET lowerText == trim(text)
             scores == calculateEmotionScores(lowerText)
             dominantEmotion == getDominantEmotion(scores)
         IN  [emotion |-> dominantEmotion.emotion,
              confidence |-> dominantEmotion.confidence,
              isDismissive |-> isDismissivePhrase(lowerText),
              allScores |-> scores]

analyze(text) ==
    IF Len(text) = 0 \/ Len(trim(text)) = 0
    THEN [emotion |-> "neutral", confidence |-> 0, isDismissive |-> FALSE]
    ELSE LET lowerText == trim(toLowerCase(text))
             scores == calculateEmotionScores(lowerText)
             dominantEmotion == getDominantEmotion(scores)
         IN  [emotion |-> dominantEmotion.emotion,
              confidence |-> dominantEmotion.confidence,
              isDismissive |-> isDismissivePhrase(lowerText),
              allScores |-> scores]

\* A number returned by getSentimentScore is the fraction num / den of two
\* integers (the scores' quarters cancel); a call that throws gives the error.
sentimentRatio(positive, negative) ==
    IF positive + negative = 0 THEN [num |-> 0, den |-> 1]
    ELSE [num |-> positive - negative, den |-> positive + negative]

sentimentOfScores(scores) ==
    sentimentRatio(scores.happy, scores.sad + scores.angry + scores.anxious)

sentimentOfAnalysis(analysis) ==
    IF "allScores" \notin DOMAIN analysis
    THEN [threw |-> "TypeError"]
    ELSE sentimentOfScores(analysis.allScores)

getSentimentScore(text) == sentimentOfAnalysis(analyze(text))

(***************************************************************************)
(* Emotion comparator (controllers/emotionController.js)                   *)
(***************************************************************************)

\* A key `${face}-${text}` is the pair <<face, text>>.
\* The table without its last entry (as the insight table is).
concerningMismatches_noAngrySad ==
    { <<"sad", "neutral">>, <<"sad", "happy">>,
      <<"angry", "neutral">>, <<"angry", "happy">>,
      <<"sad", "angry">> }

concerningMismatches ==
    { <<"sad", "neutral">>, <<"sad", "happy">>,
      <<"angry", "neutral">>, <<"angry", "happy">>,
      <<"sad", "angry">>, <<"angry", "sad">> }

severityMatrix ==
    ( <<"sad", "happy">>     :> 9 ) @@
    ( <<"sad", "neutral">>   :> 7 ) @@
    ( <<"angry", "happy">>   :> 9 ) @@
    ( <<"angry", "neutral">> :> 7 ) @@
    ( <<"sad", "angry">>     :> 5 ) @@
    ( <<"angry", "sad">>     :> 5 ) @@
    ( <<"neutral", "sad">>   :> 3 ) @@
    ( <<"neutral", "angry">> :> 3 ) @@
    ( <<"happy", "sad">>     :> 6 ) @@
    ( <<"happy", "angry">>   :> 6 )

\* calculateMismatchSeverity with >= 80 for > 80.
calculateMismatchSeverity_atLeast80(face, text, faceConfidence) ==
    LET key == <<face, text>>
        base == IF key \in DOMAIN severityMatrix THEN severityMatrix[key] ELSE 2
        severity == IF faceConfidence >= 80 THEN base + 1 ELSE base
    IN  IF severity <= 10 THEN severity ELSE 10

\* calculateMismatchSeverity with a bonus of 2 and without the cap.
calculateMismatchSeverity_uncapped(face, text, faceConfidence) ==
    LET key == <<face, text>>
        base == IF key \in DOMAIN severityMatrix THEN severityMatrix[key] ELSE 2
    IN  IF faceConfidence > 80 THEN base + 2 ELSE base

calculateMismatchSeverity(face, text, faceConfidence) ==
    LET key == <<face, text>>
        base == IF key \in DOMAIN severityMatrix THEN severityMatrix[key] ELSE 2
        severity == IF faceConfidence > 80 THEN base + 1 ELSE base
    IN  minOf({severity, 10})

\* The text-only result with the text label dropped.
textOnlyResult_neutral(text) ==
    [match |-> TRUE,
     mismatch |-> FALSE,
     primaryEmotion |-> "neutral",
     confidence |-> text.confidence,
     note |-> "Analysis based on text only (no face detected)"]

\* The result returned when no face reading came with the request.
textOnlyResult(text) ==
    [match |-> TRUE,
     mismatch |-> FALSE,
     primaryEmotion |-> text.emotion,
     confidence |-> text.confidence,
     note |-> "Analysis based on text only (no face detected)"]

\* The aligned result with the text confidence in place of the minimum.
alignedResult_textConfidence(face, text) ==
    [match |-> TRUE,
     mismatch |-> FALSE,
     primaryEmotion |-> face.emotion,
     confidence |-> text.confidence,
     note |-> "Emotions are aligned"]

\* The result returned when the two labels are equal.
alignedResult(face, text) ==
    [match |-> TRUE,
     mismatch |-> FALSE,
     primaryEmotion |-> face.emotion,
     confidence |-> minOf({face.confidence, text.confidence}),
     note |-> "Emotions are aligned"]

\* The mismatch result with the more confident reading as primaryEmotion.
mismatchResult_byConfidence(face, text) ==
    [match |-> FALSE,
     mismatch |-> TRUE,
     concerningMismatch |-> <<face.emotion, text.emotion>> \in concerningMismatches,
     hidingFeelings |-> text.isDismissive /\ face.emotion \in {"sad", "angry"},
     faceEmotion |-> face.emotion,
     textEmotion |-> text.emotion,
     faceConfidence |-> face.confidence,
     textConfidence |-> text.confidence,
     primaryEmotion |-> IF face.confidence >= text.confidence
                        THEN face.emotion ELSE text.emotion,
     isDismissive |-> text.isDismissive,
     severity |-> calculateMismatchSeverity(face.emotion, text.emotion, face.confidence)]

\* The mismatch result with hidingFeelings from isDismissive alone.
mismatchResult_dismissiveOnly(face, text) ==
    [match |-> FALSE,
     mismatch |-> TRUE,
     concerningMismatch |-> <<face.emotion, text.emotion>> \in concerningMismatches,
     hidingFeelings |-> text.isDismissive,
     faceEmotion |-> face.emotion,
     textEmotion |-> text.emotion,
     faceConfidence |-> face.confidence,
     textConfidence |-> text.confidence,
     primaryEmotion |-> face.emotion,
     isDismissive |-> text.isDismissive,
     severity |-> calculateMismatchSeverity(face.emotion, text.emotion, face.confidence)]

\* The result returned when the two labels differ.
mismatchResult(face, text) ==
    [match |-> FALSE,
     mismatch |-> TRUE,
     concerningMismatch |-> <<face.emotion, text.emotion>> \in concerningMismatches,
     hidingFeelings |-> text.isDismissive /\ face.emotion \in {"sad", "angry"},
     faceEmotion |-> face.emotion,
     textEmotion |-> text.emotion,
     faceConfidence |-> face.confidence,
     textConfidence |-> text.confidence,
     primaryEmotion |-> face.emotion,
     isDismissive |-> text.isDismissive,
     severity |-> calculateMismatchSeverity(face.emotion, text.emotion, face.confidence)]

compareEmotions(face, text) ==
    IF face = null THEN textOnlyResult(text)
    ELSE IF face.emotion = text.emotion THEN alignedResult(face, text)
    ELSE mismatchResult(face, text)

\* A property that is read where the object may not carry it: undefined is falsy.
truthy(obj, field) == field \in DOMAIN obj /\ obj[field] = TRUE

insights ==
    ( <<"sad", "neutral">> :>
        [concern |-> <<"I sense you might be feeling sadder than you're letting on.">>,
         suggestion |-> "It's okay to acknowledge difficult feelings."] ) @@
    ( <<"sad", "happy">> :>
        [concern |-> <<"Your words sound positive, but I notice some sadness in your expression.">>,
         suggestion |-> "Sometimes it helps to be honest about how we really feel."] ) @@
    ( <<"angry", "neutral">> :>
        [concern |-> <<"I can see some frustration even though you're staying calm with your words.">>,
         suggestion |-> "It's healthy to express what's bothering you."] ) @@
    ( <<"angry", "happy">> :>
        [concern |-> <<"You're being positive with your words, but I sense some underlying frustration.">>,
         suggestion |-> "You don't have to hide your anger. I'm here to listen."] ) @@
    ( <<"sad", "angry">> :>
        [concern |-> <<"You seem to be experiencing mixed emotions - both sadness and frustration.">>,
         suggestion |-> "These complex feelings are valid and understandable."] )

\* A template literal is the sequence of its pieces; a concern is such a sequence.
genericInsight(face, text) ==
    [concern |-> <<"I notice your expression shows ", face, " while your words seem ", text, ".">>,
     suggestion |-> "How are you really feeling?"]

getEmotionInsight(analysis) ==
    IF ~analysis.mismatch THEN null
    ELSE LET key == <<analysis.faceEmotion, analysis.textEmotion>>
         IN  IF key \in DOMAIN insights THEN insights[key]
             ELSE genericInsight(analysis.faceEmotion, analysis.textEmotion)

getResponseStrategy(analysis) ==
    IF ~analysis.mismatch
    THEN [type |-> "aligned", approach |-> "supportive", priority |-> "validate_emotion"]
    ELSE IF truthy(analysis, "hidingFeelings")
    THEN [type |-> "dismissive_detected", approach |-> "gentle_probing",
          priority |-> "acknowledge_hidden_emotion", severity |-> analysis.severity]
    ELSE IF truthy(analysis, "concerningMismatch")
    THEN [type |-> "concerning_mismatch", approach |-> "empathetic_confrontation",
          priority |-> "express_concern", severity |-> analysis.severity]
    ELSE [type |-> "mild_mismatch", approach |-> "curious_inquiry",
          priority |-> "understand_better"]

(***************************************************************************)
(* Response selector (controllers/responseController.js)                   *)
(*                                                                         *)
(* A reply is the sequence of the pieces it is put together from, joined   *)
(* by single spaces: <<template>> for a reply taken from a pool.  Every    *)
(* operator that draws from Math.random returns the set of its possible    *)
(* results.                                                                *)
(***************************************************************************)

dismissiveResponses ==
    [ sad |-> <<
        "I hear you saying you're okay, but I can't help but notice you seem a bit down. It's completely fine to not be fine, you know. Would you like to talk about what's really going on?",
        "You mentioned you're fine, but something in your expression tells me you might be carrying some sadness. I'm here if you want to share what's weighing on you. (U+D83D)(U+DC99)",
        "I sense there might be more to how you're feeling than just 'fine.' Sometimes it's hard to open up, but I promise it's safe here. What's really on your mind?",
        "It's okay to admit when things aren't going well. I notice you might be feeling sadder than you're letting on. Want to talk about it?" >>,
      angry |-> <<
        "I can see you're keeping things calm with your words, but I sense some frustration underneath. It's healthy to express what's bothering you - I'm here to listen without judgment.",
        "You say you're fine, but I notice some tension. If something's making you angry or frustrated, it's totally valid to feel that way. What's going on?",
        "I hear 'fine,' but your expression suggests you might be more upset than that. Sometimes we try to keep it together, but it's okay to let it out. I'm listening.",
        "It seems like something might be frustrating you even though you're staying composed. Would you like to talk about what's really bothering you?" >>,
      anxious |-> <<
        "You're saying things are okay, but I sense some worry or nervousness. Anxiety can be tough to admit. What's making you feel uneasy?",
        "I notice you might be more worried than you're expressing. It's okay to feel anxious - want to share what's on your mind?",
        "Sometimes 'fine' really means 'I'm stressed but trying to keep it together.' I'm here if you need to talk about what's worrying you." >> ]

empathyPhrases ==
    << "I want you to know",
       "I'm noticing that",
       "It seems to me that",
       "I can see that" >>

transitionPhrases ==
    << "How are you really feeling right now?",
       "What's going on for you?",
       "Would you like to share what you're experiencing?",
       "Can you tell me more about what's happening?",
       "I'm here to listen - what's really on your mind?" >>

responses ==
    [ happy |-> <<
        "That's wonderful to hear! (U+D83D)(U+DE0A) I'm so glad you're feeling happy. What's bringing you joy today?",
        "Your happiness is contagious! (U+D83C)(U+DF1F) I love hearing about the good things in your life. Tell me more!",
        "I'm really happy for you! It's great to see you in such good spirits. What's been going well?",
        "That's fantastic! Your positive energy really shows. What's making you smile today?",
        "Yay! It's so nice to see you happy. Keep that positive momentum going! What's contributing to this good mood?" >>,
      sad |-> <<
        "I'm really sorry you're feeling this way. (U+D83D)(U+DC99) Your feelings are completely valid. Would you like to talk about what's making you sad?",
        "Thank you for sharing that with me. It takes courage to be vulnerable. I'm here for you. What's been weighing on your heart?",
        "I can hear the sadness in your words, and I want you to know that it's okay to feel this way. What's going on that's making you feel down?",
        "Your feelings matter, and I'm here to listen without judgment. Sometimes just talking helps. What's troubling you?",
        "I'm sorry you're going through a difficult time. You don't have to face this alone. Want to share what's hurting?" >>,
      angry |-> <<
        "I can understand why you'd feel frustrated. Your anger is valid - something clearly isn't right. What happened that upset you?",
        "It sounds like something really got under your skin. It's healthy to acknowledge anger. What's making you feel this way?",
        "You have every right to feel angry when things aren't fair or right. I'm listening - what's frustrating you?",
        "I hear your frustration, and it's completely understandable. Sometimes we need to vent. What's triggering these feelings?",
        "Thank you for being honest about your anger. Let's talk through what's bothering you. What happened?" >>,
      anxious |-> <<
        "Anxiety can be really overwhelming. I'm sorry you're feeling this way. What's causing you to feel worried or stressed?",
        "It's okay to feel anxious - these feelings are valid and real. Would you like to talk about what's making you nervous?",
        "I understand that anxious feeling. Sometimes it helps to voice our worries. What's on your mind?",
        "Stress and worry can be so draining. You're not alone in this. What's been making you feel anxious?",
        "Thank you for sharing your anxiety with me. Let's work through this together. What are you most concerned about?" >>,
      neutral |-> <<
        "I'm here with you. How are things really going?",
        "Thanks for sharing. What's on your mind today?",
        "I'm listening. Is there anything specific you'd like to talk about?",
        "How can I support you today? What would be helpful to discuss?",
        "I hear you. Want to tell me more about what's happening?" >> ]

\* responses[Math.floor(Math.random() * responses.length)]
selectRandomResponse(pool) == {pool[k] : k \in DOMAIN pool}

generateAlignedResponse(text, emotion, strategy) ==
    LET emotionResponses ==
            IF emotion \in DOMAIN responses THEN responses[emotion] ELSE responses.neutral
    IN  {<<r>> : r \in selectRandomResponse(emotionResponses)}

generateDismissiveResponse(text, face, textReading, strategy) ==
    IF face = null
    THEN generateAlignedResponse(text, textReading.emotion, strategy)
    ELSE LET pool == IF face.emotion \in DOMAIN dismissiveResponses
                     THEN dismissiveResponses[face.emotion]
                     ELSE dismissiveResponses.sad
         IN  {<<r>> : r \in selectRandomResponse(pool)}

\* insight.concern.toLowerCase(), of a concern that is not inspected further.
lowerCased(concern) == [toLowerCase |-> concern]

\* generateMismatchResponse with > 7 for >= 7.
generateMismatchResponse_above7(text, analysis, strategy) ==
    LET insight == getEmotionInsight(analysis)
    IN  IF insight = null
        THEN generateAlignedResponse(text, analysis.primaryEmotion, strategy)
        ELSE IF "severity" \in DOMAIN strategy /\ strategy.severity > 7
        THEN {<<empathy, lowerCased(insight.concern), insight.suggestion, transition>> :
                 empathy \in selectRandomResponse(empathyPhrases),
                 transition \in selectRandomResponse(transitionPhrases)}
        ELSE {<<insight.concern, insight.suggestion, transition>> :
                 transition \in selectRandomResponse(transitionPhrases)}

generateMismatchResponse(text, analysis, strategy) ==
    LET insight == getEmotionInsight(analysis)
    IN  IF insight = null
        THEN generateAlignedResponse(text, analysis.primaryEmotion, strategy)
        ELSE IF "severity" \in DOMAIN strategy /\ strategy.severity >= 7
        THEN {<<empathy, lowerCased(insight.concern), insight.suggestion, transition>> :
                 empathy \in selectRandomResponse(empathyPhrases),
                 transition \in selectRandomResponse(transitionPhrases)}
        ELSE {<<insight.concern, insight.suggestion, transition>> :
                 transition \in selectRandomResponse(transitionPhrases)}

\* generateResponse with its first two checks in the other order.
generateResponse_concernFirst(text, textReading, face, analysis) ==
    LET strategy == getResponseStrategy(analysis)
    IN  IF truthy(analysis, "concerningMismatch")
        THEN generateMismatchResponse(text, analysis, strategy)
        ELSE IF truthy(analysis, "hidingFeelings")
        THEN generateDismissiveResponse(text, face, textReading, strategy)
        ELSE generateAlignedResponse(text, analysis.primaryEmotion, strategy)

generateResponse(text, textReading, face, analysis) ==
    LET strategy == getResponseStrategy(analysis)
    IN  IF truthy(analysis, "hidingFeelings")
        THEN generateDismissiveResponse(text, face, textReading, strategy)
        ELSE IF truthy(analysis, "concerningMismatch")
        THEN generateMismatchResponse(text, analysis, strategy)
        ELSE generateAlignedResponse(text, analysis.primaryEmotion, strategy)
\* "I'm fine"
TextImFine ==
    <<"I", "'", "m", " ", "f", "i", "n", "e">>

\* "I am so happy today!"
TextSoHappyToday ==
    <<"I", " ", "a", "m", " ", "s", "o", " ", "h", "a", "p", "p", "y", " ", "t", "o", "d", "a", "y", "!">>

\* "I feel really sad"
TextReallySad ==
    <<"I", " ", "f", "e", "e", "l", " ", "r", "e", "a", "l", "l", "y", " ", "s", "a", "d">>

\* "I hate this"
TextHateThis ==
    <<"I", " ", "h", "a", "t", "e", " ", "t", "h", "i", "s">>

\* "I'm worried about it"
TextWorried ==
    <<"I", "'", "m", " ", "w", "o", "r", "r", "i", "e", "d", " ", "a", "b", "o", "u", "t", " ", "i", "t">>

\* "it's nothing, I'm not happy"
TextNothingNotHappy ==
    <<"i", "t", "'", "s", " ", "n", "o", "t", "h", "i", "n", "g", ",", " ", "I", "'", "m", " ", "n", "o", "t", " ", "h", "a", "p", "p", "y">>

\* "Don't worry, I'm happy"
TextDontWorryHappy ==
    <<"D", "o", "n", "'", "t", " ", "w", "o", "r", "r", "y", ",", " ", "I", "'", "m", " ", "h", "a", "p", "p", "y">>

\* "hello there"
TextHelloThere ==
    <<"h", "e", "l", "l", "o", " ", "t", "h", "e", "r", "e">>

\* "never mind, I'm just sad"
TextNeverMindSad ==
    <<"n", "e", "v", "e", "r", " ", "m", "i", "n", "d", ",", " ", "I", "'", "m", " ", "j", "u", "s", "t", " ", "s", "a", "d">>

SampleTexts ==
    { TextImFine,
      TextSoHappyToday,
      TextReallySad,
      TextHateThis,
      TextWorried,
      TextNothingNotHappy,
      TextDontWorryHappy,
      TextHelloThere,
      TextNeverMindSad }

(***************************************************************************)
(* The chat exchange                                                       *)
(***************************************************************************)

\* Math.round(maxValue * 100) of an expression probability, and the cap of
\* the text analyzer's confidence.
MaxConfidence == 100

Confidences == 0..MaxConfidence

\* The labels the camera's emotionMap produces.
CameraEmotions == {"happy", "sad", "angry", "neutral"}

CanonicalEmotions == {EmotionOrder[k] : k \in DOMAIN EmotionOrder}

\* The labels a request body may carry: the canonical ones and one the
\* tables do not know (a raw expression label of the face network).
RequestEmotions == CanonicalEmotions \cup {"surprised"}

\* Text confidences of request bodies not built by sendMessage.
RequestTextConfidences == {0, 50, 80, 81, 100}

FaceReadings(labels) == [emotion : labels, confidence : Confidences]

\* The requests the server handles at the same time.
MaxInFlight == 2

Handlers == 1..MaxInFlight

idleRequest == [pc |-> "idle"]

Init ==
    /\ pc = "idle"
    /\ userText = <<>>
    /\ textEmotion = null
    /\ faceEmotion = null
    /\ emotionAnalysis = null
    /\ aiResponse = <<>>
    /\ inputText = <<>>
    /\ reading = null
    /\ sentiment = null
    /\ emotionHistory = null
    /\ patternResult = null
    /\ volatilityResult = null
    /\ interventions = null
    /\ conversations = {}
    /\ emotions = <<>>
    /\ emotion_summary = <<>>
    /\ insertId = 0
    /\ requests = [h \in Handlers |-> idleRequest]
    /\ sentResponses = <<>>
    /\ modelsLoaded = FALSE
    /\ startPending = FALSE
    /\ stream = null
    /\ isDetecting = FALSE
    /\ detectionInterval = null
    /\ pendingDetections = 0
    /\ currentEmotion = null
    /\ cameraHistory = <<>>
    /\ detected = <<>>

\* The readings the camera can hold: getCurrentEmotion() is null or the
\* last detected reading.
CameraReadings == FaceReadings(CameraEmotions) \cup {null}

\* The bodies another client of the API can post.
RequestTextReadings ==
    [emotion : RequestEmotions, confidence : RequestTextConfidences, isDismissive : BOOLEAN]

RequestFaceReadings == FaceReadings(RequestEmotions) \cup {null}

\* ChatInterface.sendMessage: the trimmed input is analysed, the camera's
\* current reading (or null) is attached, and both are posted.
sendMessage ==
    /\ pc = "idle"
    /\ \E input \in SampleTexts, current \in CameraReadings :
           /\ trim(input) # <<>>
           /\ userText' = trim(input)
           /\ textEmotion' = analyze(trim(input))
           /\ faceEmotion' = current
    /\ pc' = "posted"
    /\ UNCHANGED <<emotionAnalysis, aiResponse, textVars, historyVars, restVars>>

\* A POST /api/analyze whose body was built by another client of the API:
\* { userText, textEmotion: {emotion, confidence, isDismissive}, faceEmotion | null }.
postAnalyzeBody ==
    /\ pc = "idle"
    /\ \E textReading \in RequestTextReadings, faceReading \in RequestFaceReadings :
           /\ userText' = TextHelloThere
           /\ textEmotion' = textReading
           /\ faceEmotion' = faceReading
    /\ pc' = "posted"
    /\ UNCHANGED <<emotionAnalysis, aiResponse, textVars, historyVars, restVars>>

\* router.post('/analyze'): compare the two readings and generate the reply.
\* (The two persistence calls that follow read these values and change none.)
analyzeRoute ==
    /\ pc = "posted"
    /\ LET analysis == compareEmotions(faceEmotion, textEmotion)
       IN  /\ emotionAnalysis' = analysis
           /\ aiResponse' \in generateResponse(userText, textEmotion, faceEmotion, analysis)
    /\ pc' = "analysed"
    /\ UNCHANGED <<userText, textEmotion, faceEmotion, textVars, historyVars, restVars>>

\* The client shows the reply; the exchange is over.
showReply ==
    /\ pc = "analysed"
    /\ pc' = "idle"
    /\ userText' = <<>>
    /\ textEmotion' = null
    /\ faceEmotion' = null
    /\ emotionAnalysis' = null
    /\ aiResponse' = <<>>
    /\ UNCHANGED <<textVars, historyVars, restVars>>

Next ==
    \/ sendMessage
    \/ postAnalyzeBody
    \/ analyzeRoute
    \/ showReply

Spec == Init /\ [][Next]_vars

(***************************************************************************)
(* The text analyzer on its own                                            *)
(***************************************************************************)

\* The words a text is typed from: a keyword of each emotion, a negation
\* word without and one with an apostrophe, an intensifier, a word that is
\* a keyword only once its hyphen is removed, and a word that is none of these.
WordHappy == <<"h", "a", "p", "p", "y">>

WordSad == <<"s", "a", "d">>

WordMad == <<"m", "a", "d">>

WordWorry == <<"w", "o", "r", "r", "y">>

WordFine == <<"f", "i", "n", "e">>

WordNot == <<"n", "o", "t">>

WordDont == <<"d", "o", "n", "'", "t">>

WordSo == <<"s", "o">>

WordHapPy == <<"h", "a", "p", "-", "p", "y">>

WordI == <<"I">>

\* Every word is typed with a space after it; the empty word types the
\* space alone, which gives runs of spaces and texts of spaces only.
Vocabulary ==
    { <<>>, WordHappy, WordSad, WordMad, WordWorry, WordFine,
      WordNot, WordDont, WordSo, WordHapPy, WordI }

\* The number of words a text is typed from at most.
MaxWords == 3

wordsTyped(s) == Len(SelectSeq(s, isSpace))

TextInit == Init

\* A word is typed into the text; what was returned for the old text is gone.
typeWord ==
    /\ wordsTyped(inputText) < MaxWords
    /\ \E w \in Vocabulary : inputText' = inputText \o w \o <<" ">>
    /\ reading' = null
    /\ sentiment' = null
    /\ UNCHANGED <<chatVars, historyVars, restVars>>

\* analyzer.analyze(text)
analyzeText ==
    /\ reading = null
    /\ reading' = analyze(inputText)
    /\ UNCHANGED <<inputText, sentiment, chatVars, historyVars, restVars>>

\* analyzer.getSentimentScore(text)
sentimentOfText ==
    /\ sentiment = null
    /\ sentiment' = getSentimentScore(inputText)
    /\ UNCHANGED <<inputText, reading, chatVars, historyVars, restVars>>

TextNext ==
    \/ typeWord
    \/ analyzeText
    \/ sentimentOfText

TextSpec == TextInit /\ [][TextNext]_vars

\* Every configured keyword, to be analysed as a text of its own.
AllKeywords ==
    UNION { {emotionKeywords[e].keywords[k] : k \in DOMAIN emotionKeywords[e].keywords} :
            e \in DOMAIN emotionKeywords }


typeKeyword ==
    /\ inputText = <<>>
    /\ \E k \in AllKeywords : inputText' = k
    /\ reading' = null
    /\ sentiment' = null
    /\ UNCHANGED <<chatVars, historyVars, restVars>>

clearText ==
    /\ inputText # <<>>
    /\ inputText' = <<>>
    /\ reading' = null
    /\ sentiment' = null
    /\ UNCHANGED <<chatVars, historyVars, restVars>>

KeywordNext == typeKeyword \/ analyzeText \/ clearText

KeywordSpec == Init /\ [][KeywordNext]_vars

(***************************************************************************)
(* Emotional patterns over a history of readings (detectEmotionalPattern)  *)
(***************************************************************************)

\* Array.prototype.slice(start, end) on an array of length Len(arr): a
\* negative index counts from the end, and both are clamped to 0..length.
sliceIndex(len, k) == IF k < 0 THEN maxOf({len + k, 0}) ELSE minOf({k, len})

slice(arr, start, end) ==
    LET from == sliceIndex(Len(arr), start)
        to == sliceIndex(Len(arr), end)
    IN  IF to <= from THEN <<>> ELSE SubSeq(arr, from + 1, to)

\* slice(-5)
sliceFrom(arr, start) == slice(arr, start, Len(arr))

\* entry.emotion || entry.text_emotion
entryEmotion(entry) ==
    IF "emotion" \in DOMAIN entry /\ entry.emotion # "" THEN entry.emotion
    ELSE IF "text_emotion" \in DOMAIN entry THEN entry.text_emotion
    ELSE "undefined"

\* The keys of counts, in the order of the object literal.
CountOrder == <<"happy", "sad", "angry", "neutral", "anxious">>

\* counts after the forEach: a label that is no key of counts is not counted.
countEmotions(entries) ==
    [emotion \in {CountOrder[k] : k \in DOMAIN CountOrder} |->
        Cardinality({i \in DOMAIN entries : entryEmotion(entries[i]) = emotion})]

\* The loop over Object.entries(counts) with count >= maxCount for its test.
RECURSIVE mostCounted_lastMax(_, _, _)
mostCounted_lastMax(counts, e, best) ==
    IF e > Len(CountOrder) THEN best
    ELSE LET emotion == CountOrder[e]
         IN  IF counts[emotion] >= best.maxCount
             THEN mostCounted_lastMax(counts, e + 1,
                      [dominantEmotion |-> emotion, maxCount |-> counts[emotion]])
             ELSE mostCounted_lastMax(counts, e + 1, best)

\* The loop over Object.entries(counts) from position e on;
\* best = [dominantEmotion, maxCount].
RECURSIVE mostCounted(_, _, _)
mostCounted(counts, e, best) ==
    IF e > Len(CountOrder) THEN best
    ELSE LET emotion == CountOrder[e]
         IN  IF counts[emotion] > best.maxCount
             THEN mostCounted(counts, e + 1,
                      [dominantEmotion |-> emotion, maxCount |-> counts[emotion]])
             ELSE mostCounted(counts, e + 1, best)

\* The comparison of the share with >= in the place of >.
dominanceAbove_orEqual(maxCount, totalEntries, percent) ==
    100 * maxCount >= percent * totalEntries

\* (maxCount / totalEntries) * 100 > percent
dominanceAbove(maxCount, totalEntries, percent) ==
    100 * maxCount > percent * totalEntries

isConcerning(dominantEmotion, maxCount, totalEntries) ==
    \/ dominantEmotion = "sad" /\ dominanceAbove(maxCount, totalEntries, 60)
    \/ dominantEmotion = "angry" /\ dominanceAbove(maxCount, totalEntries, 50)
    \/ dominantEmotion = "anxious" /\ dominanceAbove(maxCount, totalEntries, 60)

\* e.emotion === 'happy' || e.text_emotion === 'happy'
isPositive(entry) ==
    \/ "emotion" \in DOMAIN entry /\ entry.emotion = "happy"
    \/ "text_emotion" \in DOMAIN entry /\ entry.text_emotion = "happy"

positiveCount(entries) == Len(SelectSeq(entries, isPositive))

trendOf(recentPositive, olderPositive) ==
    IF recentPositive < olderPositive - 1 THEN "declining"
    ELSE IF recentPositive > olderPositive + 1 THEN "improving"
    ELSE "stable"

\* The result for fewer than three entries, with the pattern of an empty count.
insufficientData_neutral == [pattern |-> "neutral", trend |-> null, concern |-> FALSE]

insufficientData == [pattern |-> "insufficient_data", trend |-> null, concern |-> FALSE]

\* history is null (no array given) or [entries |-> the array].
detectEmotionalPattern(history) ==
    IF history = null \/ Len(history.entries) < 3
    THEN insufficientData
    ELSE LET entries == history.entries
             counts == countEmotions(entries)
             best == mostCounted(counts, 1, [dominantEmotion |-> "neutral", maxCount |-> 0])
             totalEntries == Len(entries)
             recentEmotions == sliceFrom(entries, 0 - 5)
             olderEmotions == slice(entries, 0, minOf({5, Len(entries) - 5}))
         IN  [pattern |-> best.dominantEmotion,
              dominancePercentage |-> roundPercent(best.maxCount, totalEntries),
              trend |-> trendOf(positiveCount(recentEmotions), positiveCount(olderEmotions)),
              concern |-> isConcerning(best.dominantEmotion, best.maxCount, totalEntries),
              emotionBreakdown |-> counts,
              totalEntries |-> totalEntries]

\* The readings a history is made of: each of the five labels and one
\* label that is none of them under emotion, and one under text_emotion.
HistoryEntries ==
    {[emotion |-> l] : l \in {CountOrder[k] : k \in DOMAIN CountOrder} \cup {"surprised"}}
        \cup {[text_emotion |-> "happy"]}

\* The longest history.
MaxHistory == 6

HistoryInit == Init

\* An (empty) array takes the place of the missing history.
loadHistory ==
    /\ emotionHistory = null
    /\ emotionHistory' = [entries |-> <<>>]
    /\ patternResult' = null
    /\ UNCHANGED <<chatVars, textVars, restVars>>

recordReading ==
    /\ emotionHistory # null
    /\ Len(emotionHistory.entries) < MaxHistory
    /\ \E entry \in HistoryEntries :
          emotionHistory' = [entries |-> Append(emotionHistory.entries, entry)]
    /\ patternResult' = null
    /\ UNCHANGED <<chatVars, textVars, restVars>>

detectPattern ==
    /\ patternResult = null
    /\ patternResult' = detectEmotionalPattern(emotionHistory)
    /\ UNCHANGED <<emotionHistory, chatVars, textVars, restVars>>

HistoryNext == loadHistory \/ recordReading \/ detectPattern

HistorySpec == HistoryInit /\ [][HistoryNext]_vars

(***************************************************************************)
(* Volatility and interventions (calculateEmotionalVolatility,            *)
(* suggestIntervention)                                                    *)
(***************************************************************************)

\* volatilityScore = (changes / (length - 1)) * 100 is the fraction
\* 100 * changes / pairs; it is below a limit when 100 * changes < limit * pairs.
scoreBelow(changes, pairs, limit) == 100 * changes < limit * pairs

getVolatilityMessage(changes, pairs) ==
    IF scoreBelow(changes, pairs, 30)
    THEN "Your emotions have been quite stable."
    ELSE IF scoreBelow(changes, pairs, 60)
    THEN "You're experiencing some emotional ups and downs."
    ELSE "You're going through a lot of emotional changes."

\* The number of i with a current emotion that differs from the previous one.
changesIn(entries) ==
    Cardinality({i \in 2..Len(entries) :
                    entryEmotion(entries[i]) # entryEmotion(entries[i - 1])})

\* The result with the number of changes for its volatility.
volatilityOf_changes(changes, pairs) ==
    [volatility |-> changes,
     stable |-> scoreBelow(changes, pairs, 40),
     message |-> getVolatilityMessage(changes, pairs)]

volatilityOf(changes, pairs) ==
    [volatility |-> roundPercent(changes, pairs),
     stable |-> scoreBelow(changes, pairs, 40),
     message |-> getVolatilityMessage(changes, pairs)]

calculateEmotionalVolatility(history) ==
    IF history = null \/ Len(history.entries) < 2
    THEN [volatility |-> 0, stable |-> TRUE]
    ELSE volatilityOf(changesIn(history.entries), Len(history.entries) - 1)

professionalHelp ==
    [type |-> "professional_help", priority |-> "high",
     message |-> "I notice you've been feeling quite sad lately. It might help to talk to a counselor or therapist who can provide professional support."]

stressManagement ==
    [type |-> "stress_management", priority |-> "medium",
     message |-> "You've been experiencing a lot of frustration. Consider trying stress-relief techniques like deep breathing, exercise, or talking to someone you trust."]

anxietySupport ==
    [type |-> "anxiety_support", priority |-> "high",
     message |-> "Your anxiety levels seem elevated. Techniques like mindfulness, grounding exercises, or speaking with a mental health professional might help."]

emotionalRegulation ==
    [type |-> "emotional_regulation", priority |-> "medium",
     message |-> "Your emotions seem to be changing rapidly. It might help to keep a journal or practice grounding techniques to find more emotional balance."]

checkIn ==
    [type |-> "check_in", priority |-> "medium",
     message |-> "I've noticed things might not be going as well lately. Would you like to talk about what's changed or what's bothering you?"]

\* emotionPattern.pattern === label && emotionPattern.dominancePercentage > percent
patternAbove(emotionPattern, label, percent) ==
    /\ emotionPattern.pattern = label
    /\ "dominancePercentage" \in DOMAIN emotionPattern
    /\ emotionPattern.dominancePercentage > percent

\* if (emotionPattern.concern) { ... }: the pushes of the three inner tests.
concernInterventions(emotionPattern) ==
    IF emotionPattern.concern
    THEN (IF patternAbove(emotionPattern, "sad", 70) THEN <<professionalHelp>> ELSE <<>>)
         \o (IF patternAbove(emotionPattern, "angry", 60) THEN <<stressManagement>> ELSE <<>>)
         \o (IF patternAbove(emotionPattern, "anxious", 70) THEN <<anxietySupport>> ELSE <<>>)
    ELSE <<>>

\* The test of the volatility with > 40 for > 70.
volatilityInterventions_above40(volatility) ==
    IF volatility.volatility > 40 THEN <<emotionalRegulation>> ELSE <<>>

volatilityInterventions(volatility) ==
    IF volatility.volatility > 70 THEN <<emotionalRegulation>> ELSE <<>>

\* emotionPattern.trend === label; the trend is null in the result for
\* fewer than three entries, the one result without totalEntries.
trendIs(emotionPattern, label) ==
    /\ "totalEntries" \in DOMAIN emotionPattern
    /\ emotionPattern.trend = label

trendInterventions(emotionPattern) ==
    IF trendIs(emotionPattern, "declining")
    THEN <<checkIn>>
    ELSE <<>>

suggestIntervention(emotionPattern, volatility) ==
    concernInterventions(emotionPattern)
        \o volatilityInterventions(volatility)
        \o trendInterventions(emotionPattern)

\* The readings of a history whose volatility is taken.
InsightEntries == {[emotion |-> l] : l \in {"happy", "sad", "angry", "anxious"}}

\* The longest such history.
MaxReadings == 7


\* An (empty) array takes the place of the missing history.
startReadings ==
    /\ emotionHistory = null
    /\ emotionHistory' = [entries |-> <<>>]
    /\ patternResult' = null
    /\ volatilityResult' = null
    /\ interventions' = null
    /\ UNCHANGED <<chatVars, textVars, storeVars, cameraVars>>

observeReading ==
    /\ emotionHistory # null
    /\ Len(emotionHistory.entries) < MaxReadings
    /\ \E entry \in InsightEntries :
          emotionHistory' = [entries |-> Append(emotionHistory.entries, entry)]
    /\ patternResult' = null
    /\ volatilityResult' = null
    /\ interventions' = null
    /\ UNCHANGED <<chatVars, textVars, storeVars, cameraVars>>

calculateVolatility ==
    /\ volatilityResult = null
    /\ volatilityResult' = calculateEmotionalVolatility(emotionHistory)
    /\ UNCHANGED <<emotionHistory, patternResult, interventions, chatVars, textVars, storeVars, cameraVars>>

\* suggestIntervention on the pattern and the volatility of the history.
suggest ==
    /\ patternResult # null
    /\ volatilityResult # null
    /\ interventions = null
    /\ interventions' = [entries |-> suggestIntervention(patternResult, volatilityResult)]
    /\ UNCHANGED <<emotionHistory, patternResult, volatilityResult, chatVars, textVars, storeVars, cameraVars>>

InsightNext ==
    startReadings \/ observeReading \/ detectPattern \/ calculateVolatility \/ suggest

InsightSpec == Init /\ [][InsightNext]_vars

(***************************************************************************)
(* The store behind /api/analyze and /api/summary (server/routes/api.js,   *)
(* tables of server.js)                                                    *)
(***************************************************************************)

\* The counter columns of emotion_summary.
SummaryColumns == {"happy_count", "sad_count", "angry_count", "neutral_count"}

\* `${emotion}_count`
emotionColumn(emotion) ==
    CASE emotion = "happy" -> "happy_count"
      [] emotion = "sad" -> "sad_count"
      [] emotion = "angry" -> "angry_count"
      [] emotion = "neutral" -> "neutral_count"
      [] emotion = "anxious" -> "anxious_count"
      [] OTHER -> "surprised_count"

\* new Date().toISOString().split('T')[0]: all requests are of one day.
today == "today"

\* SELECT ... FROM emotion_summary WHERE date = ?
summaryRows(date) == SelectSeq(emotion_summary, LAMBDA row : row.date = date)

\* A new row: the counters not named take their default 0.
summaryRow(date, counted) ==
    [date |-> date,
     counts |-> [column \in SummaryColumns |-> IF column \in counted THEN 1 ELSE 0]]

\* The column is one of the table, and date is UNIQUE.
canInsertSummary(date, columns) ==
    /\ columns \subseteq SummaryColumns
    /\ summaryRows(date) = <<>>

\* UPDATE emotion_summary SET column = column + 1 WHERE date = ?
incremented(rows, date, column) ==
    [i \in DOMAIN rows |->
        IF rows[i].date = date
        THEN [rows[i] EXCEPT !.counts[column] = @ + 1]
        ELSE rows[i]]

\* The text emotions of the requests: the five labels of the text
\* analyzer and one that is none of them.
StoreLabels == {"happy", "sad", "angry", "neutral", "anxious", "surprised"}

\* The requests in all.
MaxRequests == 3

failure ==
    [success |-> FALSE,
     aiResponse |-> "I'm sorry, I'm having trouble processing that right now."]

\* The tables are empty and no request is being handled.

otherVars == <<chatVars, textVars, historyVars, insightVars, cameraVars>>

\* router.post('/analyze') up to its first await: the comparison and the
\* reply are computed (analyzeRoute above), then saveConversation starts.
receiveAnalyze ==
    /\ Len(sentResponses) + Cardinality({h \in Handlers : requests[h].pc # "idle"}) < MaxRequests
    /\ \E h \in Handlers, emotion \in StoreLabels :
          /\ requests[h].pc = "idle"
          /\ requests' = [requests EXCEPT ![h] =
                 [pc |-> "insertConversation", route |-> "analyze", emotion |-> emotion]]
    /\ UNCHANGED <<conversations, emotions, emotion_summary, insertId, sentResponses, otherVars>>

\* INSERT INTO conversations (user_text, ai_response); result.insertId.
insertConversation ==
    /\ \E h \in Handlers :
          /\ requests[h].pc = "insertConversation"
          /\ insertId' = insertId + 1
          /\ conversations' = conversations \cup {insertId + 1}
          /\ requests' = [requests EXCEPT ![h] =
                 [pc |-> "insertEmotion", route |-> "analyze",
                  emotion |-> requests[h].emotion, conversationId |-> insertId + 1]]
    /\ UNCHANGED <<emotions, emotion_summary, sentResponses, otherVars>>

\* INSERT INTO emotions (conversation_id, ..., text_emotion, ...)
insertEmotion ==
    /\ \E h \in Handlers :
          /\ requests[h].pc = "insertEmotion"
          /\ emotions' = Append(emotions,
                 [conversation_id |-> requests[h].conversationId,
                  text_emotion |-> requests[h].emotion])
          /\ requests' = [requests EXCEPT ![h].pc = "selectSummary"]
    /\ UNCHANGED <<conversations, emotion_summary, insertId, sentResponses, otherVars>>

\* updateDailySummary: SELECT id FROM emotion_summary WHERE date = ?
selectSummary ==
    /\ \E h \in Handlers :
          /\ requests[h].pc = "selectSummary"
          /\ requests' = [requests EXCEPT ![h].pc =
                 IF summaryRows(today) # <<>> THEN "updateSummary" ELSE "insertSummary"]
    /\ UNCHANGED <<conversations, emotions, emotion_summary, insertId, sentResponses, otherVars>>

\* The response of /analyze after updateDailySummary: res.json({success: true, ...}),
\* or the catch block when the statement was rejected.
analyzeResponse(request, done) ==
    IF done
    THEN [success |-> TRUE, route |-> "analyze", reply |-> "generated",
          detectedEmotion |-> request.emotion, conversationId |-> request.conversationId]
    ELSE [success |-> FALSE, route |-> "analyze", reply |-> failure.aiResponse,
          detectedEmotion |-> request.emotion, conversationId |-> request.conversationId]

\* updateDailySummary: UPDATE ... SET column = column + 1; then the response.
updateSummary ==
    /\ \E h \in Handlers :
          /\ requests[h].pc = "updateSummary"
          /\ LET column == emotionColumn(requests[h].emotion)
                 done == column \in SummaryColumns
             IN  /\ emotion_summary' =
                        IF done THEN incremented(emotion_summary, today, column)
                        ELSE emotion_summary
                 /\ sentResponses' = Append(sentResponses, analyzeResponse(requests[h], done))
          /\ requests' = [requests EXCEPT ![h] = idleRequest]
    /\ UNCHANGED <<conversations, emotions, insertId, otherVars>>

\* updateDailySummary: INSERT INTO emotion_summary (date, column) VALUES (?, 1);
\* then the response.
insertSummary ==
    /\ \E h \in Handlers :
          /\ requests[h].pc = "insertSummary"
          /\ LET column == emotionColumn(requests[h].emotion)
                 done == canInsertSummary(today, {column})
             IN  /\ emotion_summary' =
                        IF done THEN Append(emotion_summary, summaryRow(today, {column}))
                        ELSE emotion_summary
                 /\ sentResponses' = Append(sentResponses, analyzeResponse(requests[h], done))
          /\ requests' = [requests EXCEPT ![h] = idleRequest]
    /\ UNCHANGED <<conversations, emotions, insertId, otherVars>>

\* router.get('/summary') up to its first await.
receiveSummary ==
    /\ Len(sentResponses) + Cardinality({h \in Handlers : requests[h].pc # "idle"}) < MaxRequests
    /\ \E h \in Handlers :
          /\ requests[h].pc = "idle"
          /\ requests' = [requests EXCEPT ![h] = [pc |-> "readSummary", route |-> "summary"]]
    /\ UNCHANGED <<conversations, emotions, emotion_summary, insertId, sentResponses, otherVars>>

\* SELECT * FROM emotion_summary WHERE date = ?; the response when a row is there.
readSummary ==
    /\ \E h \in Handlers :
          /\ requests[h].pc = "readSummary"
          /\ IF summaryRows(today) # <<>>
             THEN /\ sentResponses' = Append(sentResponses,
                         [success |-> TRUE, route |-> "summary",
                          summary |-> summaryRows(today)[1].counts])
                  /\ requests' = [requests EXCEPT ![h] = idleRequest]
             ELSE /\ sentResponses' = sentResponses
                  /\ requests' = [requests EXCEPT ![h].pc = "createSummary"]
    /\ UNCHANGED <<conversations, emotions, emotion_summary, insertId, otherVars>>

\* INSERT INTO emotion_summary (date, happy_count, ...) VALUES (?, 0, 0, 0, 0);
\* then the response.
createSummary ==
    /\ \E h \in Handlers :
          /\ requests[h].pc = "createSummary"
          /\ LET done == canInsertSummary(today, {})
             IN  /\ emotion_summary' =
                        IF done THEN Append(emotion_summary, summaryRow(today, {}))
                        ELSE emotion_summary
                 /\ sentResponses' = Append(sentResponses,
                        IF done
                        THEN [success |-> TRUE, route |-> "summary",
                              summary |-> summaryRow(today, {}).counts]
                        ELSE [success |-> FALSE, route |-> "summary"])
          /\ requests' = [requests EXCEPT ![h] = idleRequest]
    /\ UNCHANGED <<conversations, emotions, insertId, otherVars>>

StoreNext ==
    \/ receiveAnalyze
    \/ insertConversation
    \/ insertEmotion
    \/ selectSummary
    \/ updateSummary
    \/ insertSummary
    \/ receiveSummary
    \/ readSummary
    \/ createSummary

StoreSpec == Init /\ [][StoreNext]_vars

(***************************************************************************)
(* CameraManager (public/js/camera.js)                                     *)
(***************************************************************************)

\* this.emotionHistory.length > 10
HistoryLimit == 10

\* addToHistory with pop() for shift(): the newest reading is dropped.
addToHistory_dropNewest(history, emotion) ==
    LET pushed == Append(history, emotion)
    IN  IF Len(pushed) > HistoryLimit THEN SubSeq(pushed, 1, Len(pushed) - 1) ELSE pushed

\* push, then shift when the length is above the limit.
addToHistory(history, emotion) ==
    LET pushed == Append(history, emotion)
    IN  IF Len(pushed) > HistoryLimit THEN Tail(pushed) ELSE pushed

\* The detections that find a face, in all, and the calls of detectEmotions
\* that wait for face-api at the same time.
MaxDetections == 11

MaxPending == 2

\* The readings of the detections: getDominantEmotion of the expressions.
DetectionLabels == {"happy", "sad"}

DetectionConfidence == 90


\* loadModels: both nets are loaded.
loadModels ==
    /\ ~modelsLoaded
    /\ modelsLoaded' = TRUE
    /\ UNCHANGED <<startPending, stream, isDetecting, detectionInterval,
                   pendingDetections, currentEmotion, cameraHistory, detected,
                   chatVars, textVars, historyVars, insightVars, storeVars>>

\* startCamera up to its await of getUserMedia.
startCamera ==
    /\ modelsLoaded
    /\ ~startPending
    /\ startPending' = TRUE
    /\ UNCHANGED <<modelsLoaded, stream, isDetecting, detectionInterval,
                   pendingDetections, currentEmotion, cameraHistory, detected,
                   chatVars, textVars, historyVars, insightVars, storeVars>>

\* The stream is granted and the video plays: startDetection().
cameraStarted ==
    /\ startPending
    /\ startPending' = FALSE
    /\ stream' = [stream |-> TRUE]
    /\ isDetecting' = TRUE
    /\ detectionInterval' = [interval |-> TRUE]
    /\ UNCHANGED <<modelsLoaded, pendingDetections, currentEmotion, cameraHistory,
                   detected, chatVars, textVars, historyVars, insightVars, storeVars>>

\* getUserMedia is refused: the catch block.
cameraRefused ==
    /\ startPending
    /\ startPending' = FALSE
    /\ UNCHANGED <<modelsLoaded, stream, isDetecting, detectionInterval,
                   pendingDetections, currentEmotion, cameraHistory, detected,
                   chatVars, textVars, historyVars, insightVars, storeVars>>

\* stopCamera: stopDetection(), then the stream is released.
stopCamera ==
    /\ stream # null \/ isDetecting
    /\ isDetecting' = FALSE
    /\ detectionInterval' = null
    /\ stream' = null
    /\ UNCHANGED <<modelsLoaded, startPending, pendingDetections, currentEmotion,
                   cameraHistory, detected,
                   chatVars, textVars, historyVars, insightVars, storeVars>>

\* The interval's callback: if (this.isDetecting) await this.detectEmotions(),
\* up to the await of face-api.
detectionTick ==
    /\ detectionInterval # null
    /\ isDetecting
    /\ pendingDetections < MaxPending
    /\ pendingDetections' = pendingDetections + 1
    /\ UNCHANGED <<modelsLoaded, startPending, stream, isDetecting, detectionInterval,
                   currentEmotion, cameraHistory, detected,
                   chatVars, textVars, historyVars, insightVars, storeVars>>

\* detectEmotions after its await, a face found: the reading (its
\* timestamp is its place among the readings) becomes the current one
\* and is added to the history.
faceDetected ==
    /\ pendingDetections > 0
    /\ Len(detected) < MaxDetections
    /\ pendingDetections' = pendingDetections - 1
    /\ \E label \in DetectionLabels :
          LET emotion == [emotion |-> label, confidence |-> DetectionConfidence,
                          timestamp |-> Len(detected) + 1]
          IN  /\ currentEmotion' = emotion
              /\ cameraHistory' = addToHistory(cameraHistory, emotion)
              /\ detected' = Append(detected, emotion)
    /\ UNCHANGED <<modelsLoaded, startPending, stream, isDetecting, detectionInterval,
                   chatVars, textVars, historyVars, insightVars, storeVars>>

\* detectEmotions after its await, no face found.
noFaceDetected ==
    /\ pendingDetections > 0
    /\ pendingDetections' = pendingDetections - 1
    /\ currentEmotion' = null
    /\ UNCHANGED <<modelsLoaded, startPending, stream, isDetecting, detectionInterval,
                   cameraHistory, detected,
                   chatVars, textVars, historyVars, insightVars, storeVars>>

\* detectEmotions after its await, face-api threw: the catch block.
detectionFailed ==
    /\ pendingDetections > 0
    /\ pendingDetections' = pendingDetections - 1
    /\ UNCHANGED <<modelsLoaded, startPending, stream, isDetecting, detectionInterval,
                   currentEmotion, cameraHistory, detected,
                   chatVars, textVars, historyVars, insightVars, storeVars>>

getCurrentEmotion == currentEmotion

CameraNext ==
    \/ loadModels
    \/ startCamera
    \/ cameraStarted
    \/ cameraRefused
    \/ stopCamera
    \/ detectionTick
    \/ faceDetected
    \/ noFaceDetected
    \/ detectionFailed

CameraSpec == Init /\ [][CameraNext]_vars

(***************************************************************************)
(* Properties of the comparison and reply path                             *)
(***************************************************************************)

\* The exchange has been analysed: emotionAnalysis and aiResponse are the
\* results for the posted userText, textEmotion and faceEmotion.
Analysed == pc = "analysed"

has(obj, field) == field \in DOMAIN obj

FaceIs(emotion, confidence) ==
    faceEmotion = [emotion |-> emotion, confidence |-> confidence]

\* The replies that are one template of the pool.
PoolReplies(pool) == {<<pool[k]>> : k \in DOMAIN pool}

InPool(reply, pool) == Len(reply) = 1 /\ \E k \in DOMAIN pool : pool[k] = reply[1]

\* C1 as stated: "I'm fine" with the face reading {sad, 90} gives
\* hidingFeelings, mismatch, primaryEmotion sad and severity 10, and a reply
\* from the sad dismissive pool.
C1_AsStated ==
    (Analysed /\ userText = TextImFine /\ FaceIs("sad", 90)) =>
        /\ truthy(emotionAnalysis, "hidingFeelings")
        /\ emotionAnalysis.mismatch
        /\ emotionAnalysis.primaryEmotion = "sad"
        /\ has(emotionAnalysis, "severity") /\ emotionAnalysis.severity = 10
        /\ InPool(aiResponse, dismissiveResponses.sad)

\* C1 (amended): analysing "I'm fine" gives a dismissive neutral reading;
\* compared with the face reading {sad, 90} it gives hidingFeelings = true,
\* mismatch = true, primaryEmotion = sad and severity 8 (sad-neutral is 7,
\* plus 1 for a face confidence above 80), and the reply is a member of the
\* sad dismissive pool.
C1_EndToEnd ==
    (Analysed /\ userText = TextImFine /\ FaceIs("sad", 90)) =>
        /\ textEmotion.emotion = "neutral" /\ textEmotion.isDismissive
        /\ truthy(emotionAnalysis, "hidingFeelings")
        /\ emotionAnalysis.mismatch
        /\ emotionAnalysis.primaryEmotion = "sad"
        /\ has(emotionAnalysis, "severity") /\ emotionAnalysis.severity = 8
        /\ InPool(aiResponse, dismissiveResponses.sad)

C1_Witness ==
    /\ Analysed /\ userText = TextImFine /\ FaceIs("sad", 90)
    /\ emotionAnalysis.mismatch
    /\ InPool(aiResponse, dismissiveResponses.sad)

\* The base severity of a face-text pair as the severity table states it.
C2_Base(face, text) ==
    CASE <<face, text>> \in {<<"sad", "happy">>, <<"angry", "happy">>} -> 9
      [] <<face, text>> \in {<<"sad", "neutral">>, <<"angry", "neutral">>} -> 7
      [] <<face, text>> \in {<<"sad", "angry">>, <<"angry", "sad">>} -> 5
      [] <<face, text>> \in {<<"happy", "sad">>, <<"happy", "angry">>} -> 6
      [] <<face, text>> \in {<<"neutral", "sad">>, <<"neutral", "angry">>} -> 3
      [] OTHER -> 2

\* C2: for every mismatched pair and every face confidence in 0..100 the
\* severity is min(10, base + (1 if the face confidence is above 80)); sad-happy
\* gives 9 up to confidence 80 and 10 at confidence 85.
C2_Severity ==
    (Analysed /\ emotionAnalysis.mismatch) =>
        LET face == faceEmotion.emotion
            text == textEmotion.emotion
            bonus == IF faceEmotion.confidence > 80 THEN 1 ELSE 0
            sum == C2_Base(face, text) + bonus
        IN  /\ has(emotionAnalysis, "severity")
            /\ emotionAnalysis.severity = IF sum < 10 THEN sum ELSE 10
            /\ emotionAnalysis.severity =
                   calculateMismatchSeverity(face, text, faceEmotion.confidence)
            /\ (face = "sad" /\ text = "happy" /\ faceEmotion.confidence <= 80)
                   => emotionAnalysis.severity = 9
            /\ (face = "sad" /\ text = "happy" /\ faceEmotion.confidence = 85)
                   => emotionAnalysis.severity = 10

C2_Witness ==
    /\ Analysed /\ emotionAnalysis.mismatch
    /\ FaceIs("sad", 85) /\ textEmotion.emotion = "happy"
    /\ emotionAnalysis.severity = 10

ComparisonFields ==
    {"match", "mismatch", "concerningMismatch", "hidingFeelings", "primaryEmotion", "severity"}

\* C3 as stated: on all three paths the result carries match, mismatch,
\* concerningMismatch, hidingFeelings, primaryEmotion and a severity in 0..10.
C3_AsStated ==
    Analysed =>
        /\ ComparisonFields \subseteq DOMAIN emotionAnalysis
        /\ emotionAnalysis.severity \in 0..10

\* C3 (amended): every result carries match, mismatch and primaryEmotion; the
\* mismatch result also carries concerningMismatch, hidingFeelings and a
\* severity that is an integer within 0..10; the two match results (no face
\* reading, equal labels) carry none of these three fields.
C3_ResultFields ==
    Analysed =>
        /\ {"match", "mismatch", "primaryEmotion"} \subseteq DOMAIN emotionAnalysis
        /\ emotionAnalysis.match \in BOOLEAN
        /\ emotionAnalysis.mismatch = ~emotionAnalysis.match
        /\ emotionAnalysis.mismatch =>
               /\ ComparisonFields \subseteq DOMAIN emotionAnalysis
               /\ emotionAnalysis.concerningMismatch \in BOOLEAN
               /\ emotionAnalysis.hidingFeelings \in BOOLEAN
               /\ emotionAnalysis.severity \in 0..10
        /\ emotionAnalysis.match =>
               DOMAIN emotionAnalysis \cap
                   {"concerningMismatch", "hidingFeelings", "severity"} = {}

C3_Witness ==
    /\ Analysed /\ emotionAnalysis.mismatch
    /\ faceEmotion.confidence > 80
    /\ emotionAnalysis.severity = 10

\* C4: when the face label equals the text label the result is a match, not a
\* mismatch, with that label as primaryEmotion and the smaller of the two
\* confidences as confidence.
C4_EqualLabelsMatch ==
    (Analysed /\ faceEmotion # null /\ faceEmotion.emotion = textEmotion.emotion) =>
        /\ emotionAnalysis.match = TRUE
        /\ emotionAnalysis.mismatch = FALSE
        /\ emotionAnalysis.primaryEmotion = textEmotion.emotion
        /\ emotionAnalysis.confidence \in {faceEmotion.confidence, textEmotion.confidence}
        /\ emotionAnalysis.confidence <= faceEmotion.confidence
        /\ emotionAnalysis.confidence <= textEmotion.confidence

C4_Witness ==
    /\ Analysed /\ faceEmotion # null /\ faceEmotion.emotion = textEmotion.emotion
    /\ faceEmotion.confidence < textEmotion.confidence
    /\ emotionAnalysis.match
    /\ emotionAnalysis.confidence = faceEmotion.confidence

\* C5: without a face reading the result is a match, not a mismatch, with the
\* text label as primaryEmotion; "I am so happy today!" is read as happy with
\* a confidence above 0 and, without a face reading, compared as a match with
\* primaryEmotion happy.
C5_TextOnly ==
    /\ (Analysed /\ faceEmotion = null) =>
           /\ emotionAnalysis.match = TRUE
           /\ emotionAnalysis.mismatch = FALSE
           /\ emotionAnalysis.primaryEmotion = textEmotion.emotion
    /\ (pc \in {"posted", "analysed"} /\ userText = TextSoHappyToday) =>
           /\ textEmotion.emotion = "happy"
           /\ textEmotion.confidence > 0
    /\ (Analysed /\ faceEmotion = null /\ userText = TextSoHappyToday) =>
           /\ emotionAnalysis.match = TRUE
           /\ emotionAnalysis.primaryEmotion = "happy"

C5_Witness ==
    /\ Analysed /\ faceEmotion = null /\ userText = TextSoHappyToday
    /\ emotionAnalysis.match
    /\ emotionAnalysis.primaryEmotion = "happy"

\* C6: whenever the result reports a mismatch, primaryEmotion is the face
\* label and not the text label, whatever the two confidences are.
C6_FaceIsPrimary ==
    (Analysed /\ emotionAnalysis.mismatch) =>
        /\ emotionAnalysis.primaryEmotion = faceEmotion.emotion
        /\ emotionAnalysis.primaryEmotion # textEmotion.emotion

C6_Witness ==
    /\ Analysed /\ emotionAnalysis.mismatch
    /\ faceEmotion.confidence < textEmotion.confidence
    /\ emotionAnalysis.primaryEmotion = faceEmotion.emotion

\* The face-text pairs the comparator is said to flag as concerning.
C7_ConcerningPairs ==
    { <<"sad", "neutral">>, <<"sad", "happy">>, <<"angry", "neutral">>,
      <<"angry", "happy">>, <<"sad", "angry">>, <<"angry", "sad">> }

\* C7: for a mismatch over the five canonical emotions, concerningMismatch is
\* true exactly for sad-neutral, sad-happy, angry-neutral, angry-happy,
\* sad-angry and angry-sad, whatever isDismissive and the confidences are.
C7_Concerning ==
    (/\ Analysed /\ emotionAnalysis.mismatch
     /\ faceEmotion.emotion \in CanonicalEmotions
     /\ textEmotion.emotion \in CanonicalEmotions) =>
        /\ has(emotionAnalysis, "concerningMismatch")
        /\ emotionAnalysis.concerningMismatch =
               (<<faceEmotion.emotion, textEmotion.emotion>> \in C7_ConcerningPairs)

C7_Witness ==
    /\ Analysed /\ emotionAnalysis.mismatch
    /\ faceEmotion.emotion = "angry" /\ textEmotion.emotion = "sad"
    /\ ~textEmotion.isDismissive
    /\ emotionAnalysis.concerningMismatch

\* C8: on a mismatch hidingFeelings is true exactly when the text reading is
\* dismissive and the face label is sad or angry; it is never true on a match.
C8_HidingFeelings ==
    Analysed =>
        /\ emotionAnalysis.mismatch =>
               /\ has(emotionAnalysis, "hidingFeelings")
               /\ emotionAnalysis.hidingFeelings =
                      (textEmotion.isDismissive /\ faceEmotion.emotion \in {"sad", "angry"})
        /\ emotionAnalysis.match => ~truthy(emotionAnalysis, "hidingFeelings")

C8_Witness ==
    /\ Analysed /\ emotionAnalysis.mismatch
    /\ textEmotion.isDismissive /\ faceEmotion.emotion = "angry"
    /\ emotionAnalysis.hidingFeelings

\* The three kinds of reply.
C9_DismissiveReplies ==
    PoolReplies(IF faceEmotion.emotion \in DOMAIN dismissiveResponses
                THEN dismissiveResponses[faceEmotion.emotion]
                ELSE dismissiveResponses.sad)

C9_AlignedReplies ==
    PoolReplies(IF emotionAnalysis.primaryEmotion \in DOMAIN responses
                THEN responses[emotionAnalysis.primaryEmotion]
                ELSE responses.neutral)

C9_IsConcernSentence(reply) ==
    /\ Len(reply) \in {3, 4}
    /\ \E k \in DOMAIN transitionPhrases : transitionPhrases[k] = reply[Len(reply)]
    /\ Len(reply) = 4 => \E k \in DOMAIN empathyPhrases : empathyPhrases[k] = reply[1]

\* C9: the reply comes from exactly one of three branches, checked in this
\* order: hidingFeelings - a member of the dismissive pool of the face label
\* (sad's pool when the label has none); otherwise concerningMismatch - the
\* composed concern sentence; otherwise a member of the aligned pool of
\* primaryEmotion (the neutral pool when the label has none).
C9_ThreeBranches ==
    Analysed =>
        IF truthy(emotionAnalysis, "hidingFeelings")
        THEN /\ aiResponse \in C9_DismissiveReplies
             /\ aiResponse \notin C9_AlignedReplies
             /\ ~C9_IsConcernSentence(aiResponse)
        ELSE IF truthy(emotionAnalysis, "concerningMismatch")
        THEN /\ C9_IsConcernSentence(aiResponse)
             /\ Len(aiResponse) # 1
        ELSE /\ aiResponse \in C9_AlignedReplies
             /\ ~C9_IsConcernSentence(aiResponse)

C9_Witness ==
    /\ Analysed
    /\ truthy(emotionAnalysis, "hidingFeelings")
    /\ truthy(emotionAnalysis, "concerningMismatch")
    /\ aiResponse \in C9_DismissiveReplies

\* The concern and suggestion of a pair: the pair's own where the insight
\* table has one, the generic sentence naming both emotions otherwise.
C10_Insight(face, text) ==
    IF <<face, text>> \in DOMAIN insights
    THEN insights[<<face, text>>]
    ELSE [concern |-> <<"I notice your expression shows ", face,
                        " while your words seem ", text, ".">>,
          suggestion |-> "How are you really feeling?"]

\* C10: in the concerning-mismatch branch the reply has the direct form
\* (empathy opener, concern, suggestion, closing question) exactly when the
\* severity is at least 7 and the gentle form (concern, suggestion, closing
\* question) below 7; the concern and suggestion are the pair's own or, for a
\* pair without one, the generic concern naming both emotions.
C10_DirectOrGentle ==
    (/\ Analysed
     /\ ~truthy(emotionAnalysis, "hidingFeelings")
     /\ truthy(emotionAnalysis, "concerningMismatch")) =>
        LET insight == C10_Insight(faceEmotion.emotion, textEmotion.emotion)
            isTransition(x) == \E k \in DOMAIN transitionPhrases : transitionPhrases[k] = x
            isEmpathy(x) == \E k \in DOMAIN empathyPhrases : empathyPhrases[k] = x
        IN  IF emotionAnalysis.severity >= 7
            THEN /\ Len(aiResponse) = 4
                 /\ isEmpathy(aiResponse[1])
                 /\ aiResponse[2] = lowerCased(insight.concern)
                 /\ aiResponse[3] = insight.suggestion
                 /\ isTransition(aiResponse[4])
            ELSE /\ Len(aiResponse) = 3
                 /\ aiResponse[1] = insight.concern
                 /\ aiResponse[2] = insight.suggestion
                 /\ isTransition(aiResponse[3])

C10_Witness ==
    /\ Analysed
    /\ faceEmotion # null /\ faceEmotion.emotion = "angry" /\ textEmotion.emotion = "sad"
    /\ ~textEmotion.isDismissive
    /\ emotionAnalysis.severity < 7
    /\ Len(aiResponse) = 3
    /\ aiResponse[1] = <<"I notice your expression shows ", "angry",
                         " while your words seem ", "sad", ".">>

(***************************************************************************)
(* Properties of the text analyzer (TextSpec)                              *)
(***************************************************************************)

Read == reading # null

EmotionLabels == {EmotionOrder[k] : k \in DOMAIN EmotionOrder}

\* The keywords of all emotions.
isKeyword(word) ==
    \E e \in EmotionLabels : includes(emotionKeywords[e].keywords, word)

\* The text holds a keyword as a run of its characters, whatever the case.
containsKeyword(text) ==
    \E e \in EmotionLabels : \E k \in DOMAIN emotionKeywords[e].keywords :
        stringIncludes(toLowerCase(text), emotionKeywords[e].keywords[k])

isBlank(text) == Len(trim(text)) = 0

\* The tokens of a text that is not blank, as the scan reads them.
rawTokens(text) == split(trim(toLowerCase(text)))

scanned(w) == stripNonWord(toLowerCase(w))

hasKeywordToken(text) ==
    /\ ~isBlank(text)
    /\ \E j \in DOMAIN rawTokens(text) : isKeyword(scanned(rawTokens(text)[j]))

blankReading == [emotion |-> "neutral", confidence |-> 0, isDismissive |-> FALSE]

\* C11 as stated, "contains" read as holding the keyword's characters: a
\* text that holds no keyword is read as neutral with confidence 0.
C11_AsStated ==
    (Read /\ ~containsKeyword(inputText)) =>
        (reading.emotion = "neutral" /\ reading.confidence = 0)

\* C11: a text none of whose tokens, lower-cased and with the characters
\* outside [A-Za-z0-9_] removed, is a keyword is read as neutral with
\* confidence 0; an empty or whitespace-only text is read as exactly
\* neutral, 0, isDismissive = false, with no scores.
C11_NoKeywordToken ==
    Read =>
        /\ ~hasKeywordToken(inputText) =>
               (reading.emotion = "neutral" /\ reading.confidence = 0)
        /\ isBlank(inputText) => reading = blankReading

C11_Witness ==
    /\ Read
    /\ ~isBlank(inputText)
    /\ ~hasKeywordToken(inputText)
    /\ Len(rawTokens(inputText)) = MaxWords
    /\ reading.emotion = "neutral"
    /\ "allScores" \in DOMAIN reading

Scored == Read /\ "allScores" \in DOMAIN reading

\* C12 as stated: every score in the allScores of a reading is >= 0.
C12_ScoresNotNegative ==
    Scored => \A e \in EmotionLabels : reading.allScores[e] >= 0

\* The highest score of a reading, and the first label of the iteration
\* order that has it.
topScore(scores) == maxOf({scores[e] : e \in EmotionLabels})

firstWith(scores, v) ==
    EmotionOrder[minOf({k \in DOMAIN EmotionOrder : scores[EmotionOrder[k]] = v})]

\* C13: the reading names the first label, in the order happy, sad, angry,
\* anxious, neutral, among those with the highest score; when no score is
\* positive it is neutral with confidence 0.
C13_FirstHighest ==
    Scored =>
        IF topScore(reading.allScores) > 0
        THEN reading.emotion = firstWith(reading.allScores, topScore(reading.allScores))
        ELSE reading.emotion = "neutral" /\ reading.confidence = 0

\* Two labels share the highest score and the earlier one is named.
C13_Witness ==
    /\ Scored
    /\ topScore(reading.allScores) > 0
    /\ \E a, b \in DOMAIN EmotionOrder :
          /\ a < b
          /\ reading.allScores[EmotionOrder[a]] = topScore(reading.allScores)
          /\ reading.allScores[EmotionOrder[b]] = topScore(reading.allScores)
          /\ reading.emotion = EmotionOrder[a]

\* The winning score: the highest score when it is positive, else the 0
\* the search starts from.
winningScore(scores) == maxOf({0, topScore(scores)})

\* c is x = win / sum times 100 rounded to the nearest integer, a half
\* rounded up: c - 1/2 <= 100 * x < c + 1/2, for sum > 0.
isRounded(c, win, sum) ==
    /\ (2 * c - 1) * sum <= 200 * win
    /\ 200 * win < (2 * c + 1) * sum

\* C14: a reading's emotion is one of the five labels and its confidence
\* is an integer in 0..100, equal to round(100 * winning score / sum of the
\* five scores), and 0 when the sum is 0; a sum below 0 has winning score
\* 0, whose quotient rounds to 0 as well.
C14_Confidence ==
    Read =>
        /\ reading.emotion \in EmotionLabels
        /\ reading.confidence \in 0..100
        /\ Scored =>
              IF sumFrom(reading.allScores, 1) > 0
              THEN isRounded(reading.confidence, winningScore(reading.allScores),
                             sumFrom(reading.allScores, 1))
              ELSE /\ reading.confidence = 0
                   /\ winningScore(reading.allScores) = 0
        /\ ~Scored => reading.confidence = 0

\* A confidence that is a proper rounding: 2/3 of the sum gives 67.
C14_Witness ==
    /\ Scored
    /\ 3 * winningScore(reading.allScores) = 2 * sumFrom(reading.allScores, 1)
    /\ winningScore(reading.allScores) > 0
    /\ reading.confidence = 67

\* The text is a configured negation word, then at most one token that is
\* neither a keyword nor a negation word, then a keyword.
negatedKeywordText(text) ==
    /\ ~isBlank(text)
    /\ LET words == rawTokens(text)
       IN  /\ Len(words) \in {2, 3}
           /\ includes(negationWords, words[1])
           /\ isKeyword(scanned(words[Len(words)]))
           /\ Len(words) = 3 =>
                 /\ ~isKeyword(scanned(words[2]))
                 /\ ~includes(negationWords, words[2])

\* C15 as stated, for the one keyword of such a text: the negation word one
\* or two tokens before it makes its increment negative, so no score of
\* the reading is above 0.
C15_NegationReverses ==
    (Scored /\ negatedKeywordText(inputText)) =>
        \A e \in EmotionLabels : reading.allScores[e] <= 0

Scoring == sentiment # null

\* C16 as stated: getSentimentScore returns, for every text, a number
\* between -1 and 1; it does not throw.
C16_NumberInRange ==
    Scoring =>
        /\ "threw" \notin DOMAIN sentiment
        /\ "num" \in DOMAIN sentiment
        /\ sentiment.num * sentiment.num <= sentiment.den * sentiment.den

(***************************************************************************)
(* Properties of the pattern detection (HistorySpec)                       *)
(***************************************************************************)

Detected == patternResult # null

historyLength == IF emotionHistory = null THEN 0 ELSE Len(emotionHistory.entries)

LongEnough == Detected /\ historyLength >= 3

\* The number of happy readings among the entries i..j of the history.
happyBetween(i, j) ==
    Cardinality({k \in i..j : k \in DOMAIN emotionHistory.entries
                              /\ isPositive(emotionHistory.entries[k])})

C18_InsufficientData ==
    (Detected /\ historyLength < 3) =>
        /\ patternResult.pattern = "insufficient_data"
        /\ patternResult.trend = null
        /\ patternResult.concern = FALSE

C18_Witness ==
    /\ Detected
    /\ emotionHistory # null
    /\ historyLength = 2
    /\ patternResult.pattern = "insufficient_data"

\* The number of entries of the history with the label.
labelled(label) ==
    Cardinality({k \in DOMAIN emotionHistory.entries :
                    entryEmotion(emotionHistory.entries[k]) = label})

FiveLabels == {"happy", "sad", "angry", "neutral", "anxious"}

\* Position of a label in the order happy, sad, angry, neutral, anxious.
tieRank(label) ==
    CASE label = "happy" -> 1
      [] label = "sad" -> 2
      [] label = "angry" -> 3
      [] label = "neutral" -> 4
      [] label = "anxious" -> 5

\* C19: for 3 entries or more, emotionBreakdown counts the entries of each
\* of the five labels and no other, totalEntries is the length, and the
\* pattern is the most counted label, the earliest in the order happy,
\* sad, angry, neutral, anxious among equals, neutral when all counts are 0.
C19_MostCounted ==
    LongEnough =>
        /\ DOMAIN patternResult.emotionBreakdown = FiveLabels
        /\ \A l \in FiveLabels : patternResult.emotionBreakdown[l] = labelled(l)
        /\ patternResult.totalEntries = historyLength
        /\ patternResult.pattern \in FiveLabels
        /\ IF \A l \in FiveLabels : labelled(l) = 0
           THEN patternResult.pattern = "neutral"
           ELSE \A l \in FiveLabels :
                   \/ labelled(l) < labelled(patternResult.pattern)
                   \/ /\ labelled(l) = labelled(patternResult.pattern)
                      /\ tieRank(patternResult.pattern) <= tieRank(l)

\* Two labels are counted equally often, an entry has a label that is not
\* counted, and the earlier label is the pattern.
C19_Witness ==
    /\ LongEnough
    /\ patternResult.pattern = "sad"
    /\ labelled("sad") = 2
    /\ labelled("anxious") = 2
    /\ labelled("surprised") = 1
    /\ patternResult.totalEntries = 5

\* C20: for 3 entries or more, concern is true exactly when the pattern is
\* sad with more than 60% of all entries, angry with more than 50%, or
\* anxious with more than 60%.
C20_Concern ==
    LongEnough =>
        LET share == labelled(patternResult.pattern)
            n == historyLength
        IN  patternResult.concern =
                (\/ patternResult.pattern = "sad" /\ 100 * share > 60 * n
                 \/ patternResult.pattern = "angry" /\ 100 * share > 50 * n
                 \/ patternResult.pattern = "anxious" /\ 100 * share > 60 * n)

\* Angry with 3 entries of 5 is a concern (60% is above 50%).
C20_Witness ==
    /\ LongEnough
    /\ historyLength = 5
    /\ patternResult.pattern = "angry"
    /\ labelled("angry") = 3
    /\ patternResult.concern = TRUE

(***************************************************************************)
(* Properties of the volatility and the interventions (InsightSpec)        *)
(***************************************************************************)

VolatilityTaken == volatilityResult # null

\* The adjacent pairs of the history whose emotions differ.
differingPairs ==
    Cardinality({i \in 1..(historyLength - 1) :
                    entryEmotion(emotionHistory.entries[i])
                        # entryEmotion(emotionHistory.entries[i + 1])})

Alternating ==
    /\ emotionHistory # null
    /\ emotionHistory.entries =
           <<[emotion |-> "happy"], [emotion |-> "sad"], [emotion |-> "happy"],
             [emotion |-> "sad"], [emotion |-> "happy"], [emotion |-> "sad"]>>

\* C21 as stated: the returned volatility is 100 * differing pairs / (n - 1),
\* within 0..100, and stable says that the returned volatility is below 40;
\* fewer than 2 entries give 0 and stable; the alternating history of six
\* gives 100 and not stable.
C21_AsStated ==
    VolatilityTaken =>
        /\ volatilityResult.volatility \in 0..100
        /\ volatilityResult.stable = (volatilityResult.volatility < 40)
        /\ historyLength < 2 => volatilityResult.volatility = 0
        /\ historyLength >= 2 =>
              volatilityResult.volatility * (historyLength - 1) = 100 * differingPairs
        /\ Alternating => volatilityResult.volatility = 100

\* C21: the returned volatility is 100 * differing pairs / (n - 1) rounded
\* to the nearest integer, within 0..100, and stable says that the quotient
\* before rounding is below 40; fewer than 2 entries give 0 and stable;
\* the alternating history of six gives 100 and not stable.
C21_Rounded ==
    VolatilityTaken =>
        /\ volatilityResult.volatility \in 0..100
        /\ historyLength < 2 =>
              (volatilityResult.volatility = 0 /\ volatilityResult.stable = TRUE)
        /\ historyLength >= 2 =>
              /\ isRounded(volatilityResult.volatility, differingPairs, historyLength - 1)
              /\ volatilityResult.stable =
                     (100 * differingPairs < 40 * (historyLength - 1))
        /\ Alternating =>
              (volatilityResult.volatility = 100 /\ volatilityResult.stable = FALSE)

\* One differing pair of three: 33.3 is returned as 33.
C21_Witness ==
    /\ VolatilityTaken
    /\ historyLength = 4
    /\ differingPairs = 1
    /\ volatilityResult.volatility = 33
    /\ volatilityResult.stable = TRUE

Suggested == interventions # null /\ patternResult # null /\ volatilityResult # null

suggestedTypes == {interventions.entries[i].type : i \in DOMAIN interventions.entries}

ConcernTypes == {"professional_help", "stress_management", "anxiety_support"}

\* The place of a type in the order of the checks.
checkRank(type) ==
    IF type \in ConcernTypes THEN 1
    ELSE IF type = "emotional_regulation" THEN 2
    ELSE 3

concernAbove(label, percent) ==
    /\ patternResult.concern
    /\ patternResult.pattern = label
    /\ patternResult.dominancePercentage > percent

\* C22: the suggestions are in the order of the checks, each type at most
\* once: the concern-based one (professional_help for sad above 70%,
\* stress_management for angry above 60%, anxiety_support for anxious above
\* 70%, and concern true), emotional_regulation exactly when the volatility
\* is above 70, check_in exactly when the trend is declining; at most three
\* entries, at most one of them concern-based.
C22_Interventions ==
    Suggested =>
        LET entries == interventions.entries
        IN  /\ Len(entries) <= 3
            /\ \A i, j \in DOMAIN entries :
                   i < j => checkRank(entries[i].type) < checkRank(entries[j].type)
            /\ Cardinality(suggestedTypes \cap ConcernTypes) <= 1
            /\ "professional_help" \in suggestedTypes <=> concernAbove("sad", 70)
            /\ "stress_management" \in suggestedTypes <=> concernAbove("angry", 60)
            /\ "anxiety_support" \in suggestedTypes <=> concernAbove("anxious", 70)
            /\ "emotional_regulation" \in suggestedTypes
                   <=> volatilityResult.volatility > 70
            /\ "check_in" \in suggestedTypes <=> trendIs(patternResult, "declining")
            /\ \A i \in DOMAIN entries :
                   entries[i] \in {professionalHelp, stressManagement, anxietySupport,
                                   emotionalRegulation, checkIn}

\* A concern-based suggestion followed by the check-in.
C22_Witness ==
    /\ Suggested
    /\ Len(interventions.entries) = 2
    /\ interventions.entries[1].type = "professional_help"
    /\ interventions.entries[2].type = "check_in"

(***************************************************************************)
(* Properties of the store (StoreSpec)                                     *)
(***************************************************************************)

\* No request is being handled.
Quiet == \A h \in Handlers : requests[h].pc = "idle"

analyzed == {i \in DOMAIN sentResponses : sentResponses[i].route = "analyze"}

CountedLabels == {"happy", "sad", "angry", "neutral"}

\* happy_count + sad_count + angry_count + neutral_count of a row.
counterSum(row) ==
    row.counts["happy_count"] + row.counts["sad_count"]
        + row.counts["angry_count"] + row.counts["neutral_count"]

\* C23 as stated: once the /api/analyze requests of a day, all for happy,
\* sad, angry or neutral messages, have been handled (in any interleaving,
\* with GET /api/summary among them), emotion_summary has exactly one row
\* for the day and its four counters add up to the number of messages.
C23_OneCountPerMessage ==
    (/\ Quiet
     /\ analyzed # {}
     /\ \A i \in analyzed : sentResponses[i].detectedEmotion \in CountedLabels) =>
        /\ Len(summaryRows(today)) = 1
        /\ counterSum(summaryRows(today)[1]) = Cardinality(analyzed)

\* C24 as stated: a request whose text emotion is anxious, or any label
\* that is not happy, sad, angry or neutral, is answered with success =
\* true and the generated reply.
C24_OtherLabelsSucceed ==
    \A i \in analyzed :
        sentResponses[i].detectedEmotion \notin CountedLabels =>
            (sentResponses[i].success = TRUE /\ sentResponses[i].reply = "generated")

\* The rows of emotions that belong to the conversation.
emotionRowsOf(id) == {k \in DOMAIN emotions : emotions[k].conversation_id = id}

\* C27 as stated: a request answered with success = false has left no
\* conversations row and no emotions row, and once no request is being
\* handled every conversations row has exactly one emotions row.
C27_FailureLeavesNothing ==
    /\ \A i \in analyzed :
          sentResponses[i].success = FALSE =>
              /\ sentResponses[i].conversationId \notin conversations
              /\ emotionRowsOf(sentResponses[i].conversationId) = {}
    /\ Quiet => \A id \in conversations : Cardinality(emotionRowsOf(id)) = 1

(***************************************************************************)
(* Properties of the camera (CameraSpec)                                   *)
(***************************************************************************)

\* The last k entries of a sequence.
lastOf(seq, k) == SubSeq(seq, Len(seq) - k + 1, Len(seq))

\* C25: the camera's history holds at most 10 readings, the most recent
\* min(n, 10) of the n readings detected, in the order of their detection.
C25_LastTen ==
    /\ Len(cameraHistory) <= 10
    /\ cameraHistory = lastOf(detected, minOf({Len(detected), 10}))

\* An eleventh reading has been detected and the first one dropped.
C25_Witness ==
    /\ Len(detected) = 11
    /\ Len(cameraHistory) = 10
    /\ cameraHistory[1] = detected[2]
    /\ cameraHistory[10] = detected[11]

\* The camera runs from the start of the detection to stopCamera.
cameraRunning == isDetecting

\* C26 as stated: while the camera is not running, getCurrentEmotion()
\* returns null.
C26_OffMeansNoReading == ~cameraRunning => getCurrentEmotion = null

(***************************************************************************)
(* Further properties of the text analyzer and the comparison              *)
(***************************************************************************)

\* A keyword of the emotions E at token j that no negation word negates:
\* none one token before it, and none two tokens before it with a token
\* that is no keyword in between.
negatedAt(words, j) ==
    \/ j > 1 /\ includes(negationWords, words[j - 1])
    \/ /\ j > 2
       /\ includes(negationWords, words[j - 2])
       /\ ~isKeyword(scanned(words[j - 1]))

hasPlainKeyword(text, E) ==
    /\ ~isBlank(text)
    /\ \E j \in DOMAIN rawTokens(text) :
          /\ \E e \in E : includes(emotionKeywords[e].keywords, scanned(rawTokens(text)[j]))
          /\ ~negatedAt(rawTokens(text), j)

\* C28 as stated: the sentiment score is above 0 only for a text with a
\* happy keyword that is not negated, and below 0 only for a text with a
\* sad, angry or anxious keyword that is not negated.
C28_SignNeedsKeyword ==
    (Scoring /\ "num" \in DOMAIN sentiment) =>
        /\ sentiment.num * sentiment.den > 0 => hasPlainKeyword(inputText, {"happy"})
        /\ sentiment.num * sentiment.den < 0 =>
               hasPlainKeyword(inputText, {"sad", "angry", "anxious"})

\* C29 as stated: the text that is one configured keyword is read as that
\* keyword's emotion with confidence 100.
C29_EveryKeywordCounts ==
    (Read /\ inputText \in AllKeywords) =>
        \A e \in EmotionLabels :
            includes(emotionKeywords[e].keywords, inputText) =>
                (reading.emotion = e /\ reading.confidence = 100)

\* C30 as stated: for a pair flagged as a concerning mismatch the insight
\* is the pair's own, not the generic sentence, and the severity without
\* the bonus for a confident face is at least 5.
C30_OwnInsight ==
    (Analysed /\ truthy(emotionAnalysis, "concerningMismatch")) =>
        /\ getEmotionInsight(emotionAnalysis)
               # genericInsight(emotionAnalysis.faceEmotion, emotionAnalysis.textEmotion)
        /\ getEmotionInsight(emotionAnalysis).suggestion # "How are you really feeling?"
        /\ emotionAnalysis.severity - (IF faceEmotion.confidence > 80 THEN 1 ELSE 0) >= 5

====
